---------------------------- MODULE Spec2Model ----------------------------
(***************************************************************************)
(* A model of github.com/dustinxie/lockfree: the lock-free stack and queue *)
(* of package list and the bucketed hash map of package hashmap.           *)
(*                                                                         *)
(* Pointers are node indices into a heap (a sequence that only grows: Go's *)
(* garbage collector never reuses a node that is still referenced), Nil is *)
(* the nil pointer.  The uint64 counters are kept in their int() reading,  *)
(* as Len() returns them: a decrement of 0 gives -1, which is what         *)
(* int(^uint64(0)) is.                                                      *)
(***************************************************************************)
EXTENDS Integers, Sequences, FiniteSets, TLC

VARIABLES
    stk,    \* the stack: its node heap and its counter
    sth,    \* the goroutines using the stack: position and locals of each
    shist,  \* per goroutine, the stack operations it has completed
    sabs,   \* the abstract LIFO sequence, changed at linearization points
    smode,  \* how the stack's goroutines choose operations
    que,    \* the queue: its node heap, head, tail and counter
    qth,    \* the goroutines using the queue
    qhist,  \* per goroutine, the queue operations it has completed
    qmode,  \* how the queue's goroutines choose operations
    hm,     \* the hash map: directory, counters, locks, buckets, node heap
    mth,    \* the goroutines using the map: position and locals of each
    mhist,  \* per goroutine, the map operations it has completed
    mmode   \* how the map's goroutines choose operations

stackVars == <<stk, sth, shist, sabs, smode>>

queueVars == <<que, qth, qhist, qmode>>

mapVars == <<hm, mth, mhist, mmode>>

vars == <<stk, sth, shist, sabs, smode, que, qth, qhist, qmode,
          hm, mth, mhist, mmode>>

Nil == 0

(***************************************************************************)
(* Bounds of the stack model.                                              *)
(***************************************************************************)
NStackThreads == 2
MaxStackSeqOps == 5
MaxStackOps == 4
WorkerPushes == 3

(***************************************************************************)
(* list.node and list.stack                                                *)
(***************************************************************************)
\* the head sentinel allocated by NewStack
StackHead == 1

\* the node that goroutine t allocates in its k-th operation: a fresh
\* address, never one that was used before
StackNodeOf(t, k) ==
    1 + (t - 1) * (MaxStackSeqOps + MaxStackOps + 2 * WorkerPushes) + k

NewStack ==
    [nodes |-> [i \in 1..StackNodeOf(NStackThreads + 1, 0)
                   |-> [val |-> Nil, nxt |-> Nil]],
     count |-> 0]

StackLen(s) == s.count

\* node.next on the node at index p
next(s, p) == s.nodes[p].nxt

\* node.value on the node at index p
value(s, p) == s.nodes[p].val

\* a compare-and-swap that swaps without comparing
casNextBlind(s, p, expected, target) ==
    [ok |-> TRUE, s |-> [s EXCEPT !.nodes[p].nxt = target]]

\* node.casNext on the node at index p: whether it swapped, and the heap after
casNext(s, p, expected, target) ==
    IF s.nodes[p].nxt = expected
    THEN [ok |-> TRUE, s |-> [s EXCEPT !.nodes[p].nxt = target]]
    ELSE [ok |-> FALSE, s |-> s]

\* the values reachable from node p, first to last
RECURSIVE ChainFrom(_, _)
ChainFrom(nodes, p) ==
    IF p = Nil THEN <<>>
    ELSE <<nodes[p].val>> \o ChainFrom(nodes, nodes[p].nxt)

StackChain(s) == ChainFrom(s.nodes, s.nodes[StackHead].nxt)

IdleStackThread ==
    [pc |-> "idle", op |-> "none", arg |-> Nil, n |-> Nil, tip |-> Nil,
     nn |-> Nil, lin |-> Nil, done |-> 0]

\* the operations a goroutine has completed
StackDone(t) == sth[t].done

\* how many entries of history h are op (with a result, if withRet)
RECURSIVE CountOps(_, _, _)
CountOps(h, op, withRet) ==
    IF h = <<>> THEN 0
    ELSE (IF Head(h).op = op /\ (withRet => Head(h).ret # Nil) THEN 1 ELSE 0)
         + CountOps(Tail(h), op, withRet)

\* the operations begun so far by goroutines 1..t (all of them, or pushes)
RECURSIVE StackBegun(_, _)
StackBegun(t, pushes) ==
    IF t = 0 THEN 0
    ELSE StackBegun(t - 1, pushes)
         + (IF pushes THEN CountOps(shist[t], "Push", FALSE) ELSE sth[t].done)
         + (IF sth[t].pc # "idle" /\ (pushes => sth[t].op = "Push") THEN 1 ELSE 0)

\* The model's goroutines: in mode "free" each runs any operations, MaxStackOps
\* in all (MaxStackSeqOps when there is one goroutine); in mode "worker"
\* (TestNewStack) each pushes, WorkerPushes in all, and then pops as many
\* times as it pushed.  Every Push pushes a value of its own.
PushVal(t, k) == 10 * t + k

StackMayStart(t, op, v) ==
    /\ sth[t].pc = "idle"
    /\ IF smode = "worker"
       THEN \/ /\ op = "Push"
               /\ CountOps(shist[t], "Pop", FALSE) = 0
               /\ StackBegun(Len(sth), TRUE) < WorkerPushes
            \/ /\ op = "Pop"
               /\ CountOps(shist[t], "Pop", FALSE) < CountOps(shist[t], "Push", FALSE)
       ELSE StackBegun(Len(sth), FALSE) <
                (IF Len(sth) = 1 THEN MaxStackSeqOps ELSE MaxStackOps)

StackReturn(t, op, arg, ret, lin) ==
    /\ sth' = [sth EXCEPT ![t] = [IdleStackThread EXCEPT !.done = sth[t].done + 1]]
    /\ shist' = [shist EXCEPT ![t] = Append(@,
                    [op |-> op, arg |-> arg, ret |-> ret, lin |-> lin])]

\* Push: n := node{val: &v}, then
\* tip := atomic.LoadPointer(&s.head.nxt); n.nxt = tip
PushLoad(t) ==
    /\ \/ StackMayStart(t, "Push", Nil)
       \/ sth[t].pc = "push_load"
    /\ LET n == StackNodeOf(t, StackDone(t) + 1)
           v == PushVal(t, StackDone(t) + 1)
           tip == next(stk, StackHead) IN
       /\ stk' = [stk EXCEPT !.nodes[n] = [val |-> v, nxt |-> tip]]
       /\ sth' = [sth EXCEPT ![t] = [@ EXCEPT !.pc = "push_cas", !.op = "Push",
                                      !.arg = v, !.n = n, !.tip = tip]]
    /\ UNCHANGED <<shist, sabs, smode, queueVars, mapVars>>

\* a Push that retries its CAS without loading the top again
PushCasNoReload(t) ==
    /\ sth[t].pc = "push_cas"
    /\ LET cas == casNext(stk, StackHead, sth[t].tip, sth[t].n) IN
       IF cas.ok
       THEN /\ stk' = cas.s
            /\ sabs' = <<sth[t].arg>> \o sabs
            /\ sth' = [sth EXCEPT ![t] = [@ EXCEPT !.pc = "push_add"]]
       ELSE UNCHANGED <<stk, sabs, sth>>
    /\ UNCHANGED <<shist, smode, queueVars, mapVars>>

\* if s.head.casNext(tip, &n): the linearization point of Push
PushCas(t) ==
    /\ sth[t].pc = "push_cas"
    /\ LET cas == casNext(stk, StackHead, sth[t].tip, sth[t].n) IN
       IF cas.ok
       THEN /\ stk' = cas.s
            /\ sabs' = <<sth[t].arg>> \o sabs
            /\ sth' = [sth EXCEPT ![t] = [@ EXCEPT !.pc = "push_add"]]
       ELSE /\ sth' = [sth EXCEPT ![t] = [@ EXCEPT !.pc = "push_load"]]
            /\ UNCHANGED <<stk, sabs>>
    /\ UNCHANGED <<shist, smode, queueVars, mapVars>>

\* atomic.AddUint64(&s.count, 1); return
PushAdd(t) ==
    /\ sth[t].pc = "push_add"
    /\ stk' = [stk EXCEPT !.count = @ + 1]
    /\ StackReturn(t, "Push", sth[t].arg, Nil, Nil)
    /\ UNCHANGED <<sabs, smode, queueVars, mapVars>>

\* Pop: tip := s.head.next(); if tip == nil { return nil }
PopLoad(t) ==
    /\ \/ StackMayStart(t, "Pop", Nil)
       \/ sth[t].pc = "pop_load"
    /\ LET tip == next(stk, StackHead) IN
       IF tip = Nil
       THEN StackReturn(t, "Pop", Nil, Nil,
                        IF sabs = <<>> THEN Nil ELSE Head(sabs))
       ELSE /\ sth' = [sth EXCEPT ![t] = [@ EXCEPT !.pc = "pop_next",
                                           !.op = "Pop", !.tip = tip]]
            /\ UNCHANGED shist
    /\ UNCHANGED <<stk, sabs, smode, queueVars, mapVars>>

\* a Pop that loads nn from the head sentinel instead of from tip
PopNextOfHead(t) ==
    /\ sth[t].pc = "pop_next"
    /\ sth' = [sth EXCEPT ![t] = [@ EXCEPT !.pc = "pop_cas",
                                   !.nn = next(stk, StackHead)]]
    /\ UNCHANGED <<stk, shist, sabs, smode, queueVars, mapVars>>

\* nn := tip.next()
PopNext(t) ==
    /\ sth[t].pc = "pop_next"
    /\ sth' = [sth EXCEPT ![t] = [@ EXCEPT !.pc = "pop_cas",
                                   !.nn = next(stk, sth[t].tip)]]
    /\ UNCHANGED <<stk, shist, sabs, smode, queueVars, mapVars>>

\* if s.head.casNext(tip, nn): the linearization point of a successful Pop
PopCas(t) ==
    /\ sth[t].pc = "pop_cas"
    /\ LET cas == casNext(stk, StackHead, sth[t].tip, sth[t].nn) IN
       IF cas.ok
       THEN /\ stk' = cas.s
            /\ sabs' = IF sabs = <<>> THEN sabs ELSE Tail(sabs)
            /\ sth' = [sth EXCEPT ![t] = [@ EXCEPT !.pc = "pop_add",
                          !.lin = IF sabs = <<>> THEN Nil ELSE Head(sabs)]]
       ELSE /\ sth' = [sth EXCEPT ![t] = [@ EXCEPT !.pc = "pop_load"]]
            /\ UNCHANGED <<stk, sabs>>
    /\ UNCHANGED <<shist, smode, queueVars, mapVars>>

\* atomic.AddUint64(&s.count, ^uint64(0)); return *tip.value()
PopAdd(t) ==
    /\ sth[t].pc = "pop_add"
    /\ stk' = [stk EXCEPT !.count = @ - 1]
    /\ StackReturn(t, "Pop", Nil, value(stk, sth[t].tip), sth[t].lin)
    /\ UNCHANGED <<sabs, smode, queueVars, mapVars>>

\* Peek: tip := s.head.next(); if tip != nil { ... }; return nil
PeekLoad(t) ==
    /\ StackMayStart(t, "Peek", Nil)
    /\ smode = "free"
    /\ LET tip == next(stk, StackHead) IN
       IF tip = Nil
       THEN StackReturn(t, "Peek", Nil, Nil,
                        IF sabs = <<>> THEN Nil ELSE Head(sabs))
       ELSE /\ sth' = [sth EXCEPT ![t] = [@ EXCEPT !.pc = "peek_val",
                          !.op = "Peek", !.tip = tip,
                          !.lin = IF sabs = <<>> THEN Nil ELSE Head(sabs)]]
            /\ UNCHANGED shist
    /\ UNCHANGED <<stk, sabs, smode, queueVars, mapVars>>

\* a Peek that returns the head sentinel's value, as a stack without a
\* sentinel would
PeekValueOfHead(t) ==
    /\ sth[t].pc = "peek_val"
    /\ StackReturn(t, "Peek", Nil, value(stk, StackHead), sth[t].lin)
    /\ UNCHANGED <<stk, sabs, smode, queueVars, mapVars>>

\* return *(*interface{})(tip.value())
PeekValue(t) ==
    /\ sth[t].pc = "peek_val"
    /\ StackReturn(t, "Peek", Nil, value(stk, sth[t].tip), sth[t].lin)
    /\ UNCHANGED <<stk, sabs, smode, queueVars, mapVars>>

\* the stack and its goroutines before the first operation
StackStart(threads, modes) ==
    /\ stk = NewStack
    /\ sth = [t \in 1..threads |-> IdleStackThread]
    /\ shist = [t \in 1..threads |-> <<>>]
    /\ sabs = <<>>
    /\ smode \in modes

NextStack ==
    \/ \E t \in DOMAIN sth : PushLoad(t)
    \/ \E t \in DOMAIN sth : PushCas(t)
    \/ \E t \in DOMAIN sth : PushAdd(t)
    \/ \E t \in DOMAIN sth : PopLoad(t)
    \/ \E t \in DOMAIN sth : PopNext(t)
    \/ \E t \in DOMAIN sth : PopCas(t)
    \/ \E t \in DOMAIN sth : PopAdd(t)
    \/ \E t \in DOMAIN sth : PeekLoad(t)
    \/ \E t \in DOMAIN sth : PeekValue(t)

(***************************************************************************)
(* Bounds of the queue model.                                              *)
(***************************************************************************)
NQueueThreads == 2
MaxQueueSeqOps == 5
MaxQueueOps == 4
WorkerEnques == 3

(***************************************************************************)
(* list.queue                                                              *)
(***************************************************************************)
\* the empty sentinel allocated by NewQueue
QueueEmpty == 1

\* the node that goroutine t allocates in its k-th operation
QueueNodeOf(t, k) ==
    1 + (t - 1) * (MaxQueueSeqOps + MaxQueueOps + 2 * WorkerEnques) + k

NewQueue ==
    [nodes |-> [i \in 1..QueueNodeOf(NQueueThreads + 1, 0)
                   |-> [val |-> Nil, nxt |-> Nil]],
     head |-> QueueEmpty, tail |-> QueueEmpty, count |-> 0]

QueueLen(q) == q.count

\* the values of the nodes after the head sentinel, oldest first
QueueChain(q) == ChainFrom(q.nodes, q.nodes[q.head].nxt)

\* a swap of the head pointer that does not compare
casHeadBlind(q, expected, target) ==
    [ok |-> TRUE, s |-> [q EXCEPT !.head = target]]

\* casAddr(headAddr, expected, target)
casHead(q, expected, target) ==
    IF q.head = expected
    THEN [ok |-> TRUE, s |-> [q EXCEPT !.head = target]]
    ELSE [ok |-> FALSE, s |-> q]

IdleQueueThread ==
    [pc |-> "idle", op |-> "none", arg |-> Nil, n |-> Nil, tail |-> Nil,
     head |-> Nil, done |-> 0]

RECURSIVE QueueBegun(_, _)
QueueBegun(t, enques) ==
    IF t = 0 THEN 0
    ELSE QueueBegun(t - 1, enques)
         + (IF enques THEN CountOps(qhist[t], "Enque", FALSE) ELSE qth[t].done)
         + (IF qth[t].pc # "idle" /\ (enques => qth[t].op = "Enque") THEN 1 ELSE 0)

\* The model's goroutines: in mode "free" each runs any operations, MaxQueueOps
\* in all (MaxQueueSeqOps when there is one goroutine); in mode "worker"
\* (TestNewQueue) each enqueues, WorkerEnques in all, and then dequeues as
\* many times as it enqueued.  Every Enque enqueues a value of its own.
EnqueVal(t, k) == 10 * t + k

QueueMayStart(t, op) ==
    /\ qth[t].pc = "idle"
    /\ IF qmode = "worker"
       THEN \/ /\ op = "Enque"
               /\ CountOps(qhist[t], "Deque", FALSE) = 0
               /\ QueueBegun(Len(qth), TRUE) < WorkerEnques
            \/ /\ op = "Deque"
               /\ CountOps(qhist[t], "Deque", FALSE) < CountOps(qhist[t], "Enque", FALSE)
       ELSE QueueBegun(Len(qth), FALSE) <
                (IF Len(qth) = 1 THEN MaxQueueSeqOps ELSE MaxQueueOps)

QueueReturn(t, op, arg, ret) ==
    /\ qth' = [qth EXCEPT ![t] = [IdleQueueThread EXCEPT !.done = qth[t].done + 1]]
    /\ qhist' = [qhist EXCEPT ![t] = Append(@, [op |-> op, arg |-> arg, ret |-> ret])]

\* Enque: n := node{val: &v}, then tail := (*node)(atomic.LoadPointer(tailAddr))
EnqueLoad(t) ==
    /\ \/ QueueMayStart(t, "Enque")
       \/ qth[t].pc = "enq_load"
    /\ LET n == QueueNodeOf(t, qth[t].done + 1)
           v == EnqueVal(t, qth[t].done + 1) IN
       /\ que' = [que EXCEPT !.nodes[n] = [val |-> v, nxt |-> Nil]]
       /\ qth' = [qth EXCEPT ![t] = [@ EXCEPT !.pc = "enq_cas", !.op = "Enque",
                                      !.arg = v, !.n = n, !.tail = que.tail]]
    /\ UNCHANGED <<qhist, qmode, stackVars, mapVars>>

\* if tail.casNext(nil, &n)
EnqueCas(t) ==
    /\ qth[t].pc = "enq_cas"
    /\ LET cas == casNext(que, qth[t].tail, Nil, qth[t].n) IN
       IF cas.ok
       THEN /\ que' = cas.s
            /\ qth' = [qth EXCEPT ![t] = [@ EXCEPT !.pc = "enq_store"]]
       ELSE /\ qth' = [qth EXCEPT ![t] = [@ EXCEPT !.pc = "enq_load"]]
            /\ UNCHANGED que
    /\ UNCHANGED <<qhist, qmode, stackVars, mapVars>>

\* atomic.StorePointer(tailAddr, &n)
EnqueStore(t) ==
    /\ qth[t].pc = "enq_store"
    /\ que' = [que EXCEPT !.tail = qth[t].n]
    /\ qth' = [qth EXCEPT ![t] = [@ EXCEPT !.pc = "enq_add"]]
    /\ UNCHANGED <<qhist, qmode, stackVars, mapVars>>

\* atomic.AddUint64(&q.count, 1); return
EnqueAdd(t) ==
    /\ qth[t].pc = "enq_add"
    /\ que' = [que EXCEPT !.count = @ + 1]
    /\ QueueReturn(t, "Enque", qth[t].arg, Nil)
    /\ UNCHANGED <<qmode, stackVars, mapVars>>

\* Deque: head := atomic.LoadPointer(headAddr)
DequeLoad(t) ==
    /\ \/ QueueMayStart(t, "Deque")
       \/ qth[t].pc = "deq_load"
    /\ qth' = [qth EXCEPT ![t] = [@ EXCEPT !.pc = "deq_next", !.op = "Deque",
                                   !.head = que.head]]
    /\ UNCHANGED <<que, qhist, qmode, stackVars, mapVars>>

\* n := (*node)(head).next(); if n == nil { return nil }
DequeNext(t) ==
    /\ qth[t].pc = "deq_next"
    /\ LET n == next(que, qth[t].head) IN
       IF n = Nil
       THEN QueueReturn(t, "Deque", Nil, Nil)
       ELSE /\ qth' = [qth EXCEPT ![t] = [@ EXCEPT !.pc = "deq_cas", !.n = n]]
            /\ UNCHANGED qhist
    /\ UNCHANGED <<que, qmode, stackVars, mapVars>>

\* if casAddr(headAddr, head, unsafe.Pointer(n))
DequeCas(t) ==
    /\ qth[t].pc = "deq_cas"
    /\ LET cas == casHead(que, qth[t].head, qth[t].n) IN
       IF cas.ok
       THEN /\ que' = cas.s
            /\ qth' = [qth EXCEPT ![t] = [@ EXCEPT !.pc = "deq_add"]]
       ELSE /\ qth' = [qth EXCEPT ![t] = [@ EXCEPT !.pc = "deq_load"]]
            /\ UNCHANGED que
    /\ UNCHANGED <<qhist, qmode, stackVars, mapVars>>

\* a Deque that returns the value of the old head sentinel
DequeAddOfHead(t) ==
    /\ qth[t].pc = "deq_add"
    /\ que' = [que EXCEPT !.count = @ - 1]
    /\ QueueReturn(t, "Deque", Nil, value(que, qth[t].head))
    /\ UNCHANGED <<qmode, stackVars, mapVars>>

\* atomic.AddUint64(&q.count, ^uint64(0)); return *n.value()
DequeAdd(t) ==
    /\ qth[t].pc = "deq_add"
    /\ que' = [que EXCEPT !.count = @ - 1]
    /\ QueueReturn(t, "Deque", Nil, value(que, qth[t].n))
    /\ UNCHANGED <<qmode, stackVars, mapVars>>

\* the queue and its goroutines before the first operation
QueueStart(threads, modes) ==
    /\ que = NewQueue
    /\ qth = [t \in 1..threads |-> IdleQueueThread]
    /\ qhist = [t \in 1..threads |-> <<>>]
    /\ qmode \in modes

NextQueue ==
    \/ \E t \in DOMAIN qth : EnqueLoad(t)
    \/ \E t \in DOMAIN qth : EnqueCas(t)
    \/ \E t \in DOMAIN qth : EnqueStore(t)
    \/ \E t \in DOMAIN qth : EnqueAdd(t)
    \/ \E t \in DOMAIN qth : DequeLoad(t)
    \/ \E t \in DOMAIN qth : DequeNext(t)
    \/ \E t \in DOMAIN qth : DequeCas(t)
    \/ \E t \in DOMAIN qth : DequeAdd(t)

(***************************************************************************)
(* The hash map of package hashmap                                         *)
(*                                                                         *)
(* The map is one record: the fields of hmap, the buckets it ever made     *)
(* (bkt, a bucket pointer is an index into it) and the heap of hash nodes  *)
(* (hn).  The node of key k has address k, the fence of bucket b has       *)
(* address FenceOf(b), the terminal fence TermFence.  A key is a value     *)
(* that implements Hash64; hashes are HashBits wide instead of 64.         *)
(***************************************************************************)
HashBits == 8
BucketSize == 6
MaxMapSeqOps == 3

HashSpace == 2 ^ HashBits

\* math.MaxUint64, the hash of the terminal fence
MaxHash == HashSpace - 1

HashStride == 75

\* Hash64.Sum64 of a key: keys k and k + HashSpace collide
Sum64(v) == (v * HashStride) % HashSpace

\* hmap.hash, the default branch: the key implements Hash64
hash(key) == Sum64(key)

\* the kinds of keys: a positive number stands for a key that implements
\* Hash64, OtherKind for a key of a kind that hash does not know (nil is one)
OtherKind == 0 - 1

hashable(key) == key > 0

TermFence == -1

FenceOf(b) == 0 - (b + 1)

NodeOf(key) == key

\* the node that Set and Del build for a key
hashNode(h, key, val, nxt) == [hash |-> h, key |-> key, val |-> val, nxt |-> nxt]

newFence == hashNode(MaxHash, Nil, Nil, Nil)

isFence(m, n) == m.hn[n].key = Nil

linkTo(m, n, target) == [m EXCEPT !.hn[n].nxt = target]

newBucket(count) == [count |-> count, w |-> 0, r |-> {}]

\* the heap with node n (re)allocated
Alloc(heap, n, node) ==
    [x \in DOMAIN heap \cup {n} |-> IF x = n THEN node ELSE heap[x]]

New(size) ==
    [bSize |-> IF size < 6 THEN 6 ELSE size,
     B |-> 0,
     count |-> 0,
     mutex |-> 0,
     buckets |-> <<1>>,
     iter |-> 0,
     curr |-> Nil,
     bkt |-> <<newBucket(0)>>,
     hn |-> Alloc(Alloc(<<>>, TermFence, newFence),
                  FenceOf(1), hashNode(0, Nil, Nil, TermFence))]

\* count is a uint64 that Len() converts to int: the model keeps the int, so
\* a count below 0 is the uint64 that has wrapped to 2^64 + count
MapLen(m) == m.count

\* uint64(count) >> B, compared with a limit of at most 255: the shift of a
\* wrapped count is at least 2^63 >> B, above every limit
shiftAbove(m, limit) == m.count < 0 \/ m.count \div (2 ^ m.B) > limit

\* an isOverflow that lets a bucket size of S + 1 pass
isOverflowLate(m) == shiftAbove(m, m.bSize + 1)

isOverflow(m) == shiftAbove(m, m.bSize)

\* an isUnderflow whose limit is a half of the bucket size
isUnderflowHalf(m) == m.B > 4 /\ ~shiftAbove(m, m.bSize \div 2)

isUnderflow(m) == m.B > 4 /\ ~shiftAbove(m, m.bSize \div 3)

\* hash >> (64 - B): the directory slot of a hash (slot i is buckets[i + 1])
SlotOf(m, h) == h \div (2 ^ (HashBits - m.B))

getBucket(m, h) == m.buckets[SlotOf(m, h) + 1]

\* the walk of pivot from (curr, nx); ok is FALSE when the walk dereferences
\* a nil pointer
RECURSIVE pivotFrom(_, _, _, _, _)
pivotFrom(m, h, curr, nx, count) ==
    IF nx = Nil
    THEN [ok |-> FALSE, curr |-> curr, next |-> nx, count |-> count]
    ELSE IF h > m.hn[nx].hash
         THEN pivotFrom(m, h, nx, m.hn[nx].nxt, count + 1)
         ELSE [ok |-> TRUE, curr |-> curr, next |-> nx, count |-> count]

pivot(m, b, h) == pivotFrom(m, h, FenceOf(b), m.hn[FenceOf(b)].nxt, 0)

\* a search that takes a node of the same hash for the node of the key
searchFromOfHash(m, key, h, curr, nx) ==
    [ok |-> nx # Nil, curr |-> curr, next |-> nx,
     insert |-> ~(nx # Nil /\ h = m.hn[nx].hash /\ ~isFence(m, nx))]

\* a search that does not walk the nodes of the same hash: a key that is not
\* the first of them is put in front of them
searchFromAhead(m, key, h, curr, nx) ==
    IF nx = Nil
    THEN [ok |-> FALSE, curr |-> curr, next |-> nx, insert |-> FALSE]
    ELSE [ok |-> TRUE, curr |-> curr, next |-> nx,
          insert |-> ~(h = m.hn[nx].hash /\ ~isFence(m, nx)
                       /\ key = m.hn[nx].key)]

RECURSIVE searchFrom(_, _, _, _, _)
searchFrom(m, key, h, curr, nx) ==
    IF nx = Nil
    THEN [ok |-> FALSE, curr |-> curr, next |-> nx, insert |-> FALSE]
    ELSE IF h = m.hn[nx].hash /\ ~isFence(m, nx)
         THEN IF key = m.hn[nx].key
              THEN [ok |-> TRUE, curr |-> curr, next |-> nx, insert |-> FALSE]
              ELSE searchFrom(m, key, h, nx, m.hn[nx].nxt)
         ELSE [ok |-> TRUE, curr |-> curr, next |-> nx, insert |-> TRUE]

search(m, b, key, h) ==
    LET p == pivot(m, b, h)
    IN  IF p.ok
        THEN searchFrom(m, key, h, p.curr, p.next)
        ELSE [ok |-> FALSE, curr |-> p.curr, next |-> p.next, insert |-> FALSE]

\* the loop of bucket.get from curr
RECURSIVE getFrom(_, _, _, _)
getFrom(m, key, h, curr) ==
    IF curr = Nil
    THEN [ok |-> FALSE, val |-> Nil, found |-> FALSE]
    ELSE IF isFence(m, curr)
         THEN [ok |-> TRUE, val |-> Nil, found |-> FALSE]
         ELSE IF h = m.hn[curr].hash /\ key = m.hn[curr].key
              THEN [ok |-> TRUE, val |-> m.hn[curr].val, found |-> TRUE]
              ELSE getFrom(m, key, h, m.hn[curr].nxt)

get(m, b, key, h) == getFrom(m, key, h, m.hn[FenceOf(b)].nxt)

RECURSIVE lastFrom(_, _, _)
lastFrom(m, curr, nx) ==
    IF nx = Nil
    THEN [ok |-> FALSE, curr |-> curr]
    ELSE IF isFence(m, nx)
         THEN [ok |-> TRUE, curr |-> curr]
         ELSE lastFrom(m, nx, m.hn[nx].nxt)

last(m, b) == lastFrom(m, FenceOf(b), m.hn[FenceOf(b)].nxt)

\* an upsert that reports an insertion when it replaced a value
upsertCasCounted(m, b, s, key, val, h) ==
    IF s.insert
    THEN [ok |-> m.hn[s.curr].nxt = s.next, inserted |-> TRUE,
          m |-> [m EXCEPT
                   !.hn = [Alloc(@, NodeOf(key), hashNode(h, key, val, s.next))
                             EXCEPT ![s.curr].nxt = NodeOf(key)],
                   !.bkt[b].count = @ + 1]]
    ELSE [ok |-> TRUE, inserted |-> TRUE,
          m |-> [m EXCEPT !.hn[s.next].val = val]]

\* an upsert that stores curr.nxt without comparing it with next
upsertStore(m, b, s, key, val, h) ==
    IF s.insert
    THEN [ok |-> TRUE, inserted |-> TRUE,
          m |-> [m EXCEPT
                   !.hn = [Alloc(@, NodeOf(key), hashNode(h, key, val, s.next))
                             EXCEPT ![s.curr].nxt = NodeOf(key)],
                   !.bkt[b].count = @ + 1]]
    ELSE [ok |-> TRUE, inserted |-> FALSE,
          m |-> [m EXCEPT !.hn[s.next].val = val]]

\* what upsert does with the result s of its search: the CAS of curr.nxt
\* from next to the new node, or the CAS of next.val; ok is the CAS's result
upsertCas(m, b, s, key, val, h) ==
    IF s.insert
    THEN IF m.hn[s.curr].nxt = s.next
         THEN [ok |-> TRUE, inserted |-> TRUE,
               m |-> [m EXCEPT
                        !.hn = [Alloc(@, NodeOf(key),
                                      hashNode(h, key, val, s.next))
                                  EXCEPT ![s.curr].nxt = NodeOf(key)],
                        !.bkt[b].count = @ + 1]]
         ELSE [ok |-> FALSE, inserted |-> FALSE, m |-> m]
    ELSE [ok |-> TRUE, inserted |-> FALSE,
          m |-> [m EXCEPT !.hn[s.next].val = val]]

\* bucket.upsert run alone
upsert(m, b, key, val, h) == upsertCas(m, b, search(m, b, key, h), key, val, h)

\* the two plain writes of bucket.del and its count
delNil(m, s) == linkTo(m, s.curr, Nil)

\* a second write of del that leaves the counter as it was
delLinkKeepsCount(m, b, s) == linkTo(m, s.curr, m.hn[s.next].nxt)

delLink(m, b, s) ==
    [linkTo(m, s.curr, m.hn[s.next].nxt) EXCEPT !.bkt[b].count = @ - 1]

\* bucket.del run alone
del(m, b, key, h) ==
    LET s == search(m, b, key, h)
    IN  IF s.insert
        THEN [removed |-> FALSE, m |-> m]
        ELSE [removed |-> TRUE, m |-> delLink(delNil(m, s), b, s)]

\* a split that leaves the counter of the old bucket as it was
splitKeepsCount(m, b, h) ==
    LET p == pivot(m, b, h)
        b1 == Len(m.bkt) + 1
        m1 == [m EXCEPT
                 !.bkt = Append(@, newBucket(m.bkt[b].count - p.count)),
                 !.hn = Alloc(@, FenceOf(b1), hashNode(h, Nil, Nil, p.next))]
        m2 == m1
    IN  [ok |-> p.ok, b1 |-> b1,
         m |-> IF p.ok THEN linkTo(m2, p.curr, FenceOf(b1)) ELSE m]

split(m, b, h) ==
    LET p == pivot(m, b, h)
        b1 == Len(m.bkt) + 1
        m1 == [m EXCEPT
                 !.bkt = Append(@, newBucket(m.bkt[b].count - p.count)),
                 !.hn = Alloc(@, FenceOf(b1), hashNode(h, Nil, Nil, p.next))]
        m2 == [m1 EXCEPT !.bkt[b].count = p.count]
    IN  [ok |-> p.ok, b1 |-> b1,
         m |-> IF p.ok THEN linkTo(m2, p.curr, FenceOf(b1)) ELSE m]

\* a merge that links the last node of b to the fence of b1, which so stays
\* in the chain
mergeKeepsFence(m, b, b1) ==
    LET m1 == [m EXCEPT !.bkt[b].count = @ + m.bkt[b1].count]
        l == last(m1, b)
    IN  [ok |-> l.ok,
         m |-> IF l.ok THEN linkTo(m1, l.curr, FenceOf(b1)) ELSE m]

merge(m, b, b1) ==
    LET m1 == [m EXCEPT !.bkt[b].count = @ + m.bkt[b1].count]
        l == last(m1, b)
    IN  [ok |-> l.ok,
         m |-> IF l.ok THEN linkTo(m1, l.curr, m1.hn[FenceOf(b1)].nxt) ELSE m]

\* expand: the doubling of the directory, then the body of its loop for i
expandBegin(m) == [m EXCEPT !.buckets = @ \o @, !.B = @ + 1]

expandStep(m, i) ==
    LET d1 == IF i # 0
              THEN [m.buckets EXCEPT ![2 * i + 1] = m.buckets[i + 1]]
              ELSE m.buckets
        sp == split([m EXCEPT !.buckets = d1], d1[2 * i + 1],
                    (2 * i + 1) * 2 ^ (HashBits - m.B))
    IN  [ok |-> sp.ok, m |-> [sp.m EXCEPT !.buckets[2 * i + 2] = sp.b1]]

\* the turns of expand's loop for i = hi down to lo
RECURSIVE expandFrom(_, _, _)
expandFrom(m, hi, lo) ==
    IF hi < lo
    THEN m
    ELSE IF hi = lo
         THEN expandStep(m, hi).m
         ELSE CHOOSE r \in {expandFrom(m1, (hi + lo) \div 2, lo) : m1 \in
                            {expandFrom(m, hi, (hi + lo) \div 2 + 1)}} : TRUE

expand(m) ==
    IF isOverflow(m)
    THEN expandFrom(expandBegin(m), Len(m.buckets) - 1, 0)
    ELSE m

\* shrink: the body of its loop for i, then the halving of the directory
shrinkStep(m, i) ==
    LET mg == merge(m, m.buckets[2 * i + 1], m.buckets[2 * i + 2])
        d1 == [mg.m.buckets EXCEPT ![2 * i + 2] = Nil]
        d2 == IF i # 0 THEN [d1 EXCEPT ![i + 1] = d1[2 * i + 1]] ELSE d1
    IN  [ok |-> mg.ok, m |-> [mg.m EXCEPT !.buckets = d2]]

\* an end of shrink that halves the directory and leaves B as it was
shrinkEndKeepsB(m) == [m EXCEPT !.buckets = SubSeq(@, 1, Len(@) \div 2)]

shrinkEnd(m) ==
    [m EXCEPT !.B = @ - 1, !.buckets = SubSeq(@, 1, Len(@) \div 2)]

\* the turns of shrink's loop for i = lo up to hi
RECURSIVE shrinkFrom(_, _, _)
shrinkFrom(m, lo, hi) ==
    IF hi < lo
    THEN m
    ELSE IF hi = lo
         THEN shrinkStep(m, lo).m
         ELSE CHOOSE r \in {shrinkFrom(m1, (hi + lo) \div 2 + 1, hi) : m1 \in
                            {shrinkFrom(m, lo, (hi + lo) \div 2)}} : TRUE

shrink(m) ==
    IF isUnderflow(m)
    THEN shrinkEnd(shrinkFrom(m, 0, Len(m.buckets) \div 2 - 1))
    ELSE m

\* hmap.Set, hmap.Del and hmap.Get run alone
Set(m, key, val) ==
    LET h == hash(key)
        u == upsert(m, getBucket(m, h), key, val, h)
    IN  CHOOSE r \in {expand(m1) : m1 \in
                    {IF u.inserted THEN [u.m EXCEPT !.count = @ + 1] ELSE u.m}} :
            TRUE

Del(m, key) ==
    LET h == hash(key)
        d == del(m, getBucket(m, h), key, h)
    IN  CHOOSE r \in {shrink(m1) : m1 \in
                    {IF d.removed THEN [d.m EXCEPT !.count = @ - 1] ELSE d.m}} :
            TRUE

Get(m, key) == get(m, getBucket(m, hash(key)), key, hash(key))

\* the map after Set(k, k) for k = from .. to, and after Del(k) likewise
RECURSIVE SetRange(_, _, _)
SetRange(m, from, to) ==
    IF from > to
    THEN m
    ELSE IF from = to
         THEN Set(m, from, from)
         ELSE CHOOSE r \in {SetRange(m1, (from + to) \div 2 + 1, to) : m1 \in
                            {SetRange(m, from, (from + to) \div 2)}} : TRUE

RECURSIVE DelRange(_, _, _)
DelRange(m, from, to) ==
    IF from > to
    THEN m
    ELSE IF from = to
         THEN Del(m, from)
         ELSE CHOOSE r \in {DelRange(m1, (from + to) \div 2 + 1, to) : m1 \in
                            {DelRange(m, from, (from + to) \div 2)}} : TRUE

(***************************************************************************)
(* The goroutines that use the map.  A step is what a goroutine does       *)
(* between two points where another goroutine can see or change what it    *)
(* works on: getBucket (the map's read lock is held for one load), the     *)
(* taking of a lock, one walk of the chain, one CAS, one plain write.      *)
(* A nil dereference is a panic: the deferred unlocks run and the process  *)
(* ends, so no goroutine takes another step.                               *)
(***************************************************************************)
NMapThreads == 2
WorkerKeys == 4

NoSearch == [ok |-> TRUE, curr |-> Nil, next |-> Nil, insert |-> FALSE]

IdleMapThread(script) ==
    [pc |-> "idle", op |-> "none", key |-> Nil, val |-> Nil, b |-> Nil,
     s |-> NoSearch, i |-> 0, done |-> 0, script |-> script]

Crashed == \E t \in DOMAIN mth : mth[t].pc = "panic"

At(t, pc) == mth[t].pc = pc /\ ~Crashed

\* the value of the k-th Set of goroutine t, when it chooses its operations
SetVal(t, k) == 1000 * t + k

\* keys 1 .. n are in the map at the start: the keys a goroutine may use are
\* one of them, a key that collides with it, and a key that is not there
FreeKeys(n) == {1, 1 + HashSpace, n + 1}

\* the operations (key and value) that goroutine t may invoke next
MapChoices(t, op) ==
    IF mmode.mode = "free"
    THEN IF mth[t].done < MaxMapSeqOps
         THEN {[key |-> k,
                val |-> IF op = "Set" THEN SetVal(t, mth[t].done + 1) ELSE Nil] :
               k \in FreeKeys(mmode.n) \cup {OtherKind}}
         ELSE {}
    ELSE IF mth[t].script # <<>> /\ Head(mth[t].script).op = op
         THEN {[key |-> Head(mth[t].script).key,
                val |-> Head(mth[t].script).val]}
         ELSE {}

\* a call whose key is of a kind that hash does not know: in this one the
\* key is hashed after the entry is counted
InvokeCountsFirst(t, op, pc) ==
    /\ At(t, "idle")
    /\ \E c \in MapChoices(t, op) :
         IF hashable(c.key)
         THEN /\ hm.mutex = 0
              /\ mth' = [mth EXCEPT ![t] =
                        [@ EXCEPT !.pc = pc, !.op = op, !.key = c.key,
                                  !.val = c.val,
                                  !.b = getBucket(hm, hash(c.key)),
                                  !.script = IF @ = <<>> THEN @ ELSE Tail(@)]]
              /\ UNCHANGED <<hm, mhist>>
         ELSE /\ mth' = [mth EXCEPT ![t] =
                        [@ EXCEPT !.pc = "panic", !.op = op, !.key = c.key]]
              /\ mhist' = mhist
              /\ hm' = [hm EXCEPT !.count = @ + 1]
    /\ UNCHANGED <<mmode, stackVars, queueVars>>

\* the call of an operation up to the return of getBucket; hash panics with
\* "unsupported key type", before anything else is done, when the key is of
\* a kind it does not know
Invoke(t, op, pc) ==
    /\ At(t, "idle")
    /\ \E c \in MapChoices(t, op) :
         IF hashable(c.key)
         THEN /\ hm.mutex = 0
              /\ mth' = [mth EXCEPT ![t] =
                        [@ EXCEPT !.pc = pc, !.op = op, !.key = c.key,
                                  !.val = c.val,
                                  !.b = getBucket(hm, hash(c.key)),
                                  !.script = IF @ = <<>> THEN @ ELSE Tail(@)]]
              /\ mhist' = mhist
         ELSE /\ mth' = [mth EXCEPT ![t] =
                        [@ EXCEPT !.pc = "panic", !.op = op, !.key = c.key]]
              /\ mhist' = mhist
    /\ UNCHANGED <<hm, mmode, stackVars, queueVars>>

\* the thread and the history after the operation of t has returned
Returned(t) ==
    [IdleMapThread(mth[t].script) EXCEPT !.done = mth[t].done + 1]

MapReturn(t, ret, found) ==
    /\ mth' = [mth EXCEPT ![t] = Returned(t)]
    /\ mhist' = [mhist EXCEPT ![t] =
                   Append(@, [op |-> mth[t].op, key |-> mth[t].key,
                              val |-> mth[t].val, ret |-> ret,
                              found |-> found])]

Goto(t, pc) == mth' = [mth EXCEPT ![t].pc = pc]

Free(m, b) == m.bkt[b].w = 0 /\ m.bkt[b].r = {}

RLock(m, b, t) == [m EXCEPT !.bkt[b].r = @ \cup {t}]

RUnlock(m, b, t) == [m EXCEPT !.bkt[b].r = @ \ {t}]

Lock(m, b, t) == [m EXCEPT !.bkt[b].w = t]

Unlock(m, b) == [m EXCEPT !.bkt[b].w = 0]

(***************************************************************************)
(* hmap.Set                                                                *)
(***************************************************************************)
SetGetBucket(t) == Invoke(t, "Set", "upsert_rlock")

UpsertRLock(t) ==
    /\ At(t, "upsert_rlock")
    /\ hm.bkt[mth[t].b].w = 0
    /\ hm' = RLock(hm, mth[t].b, t)
    /\ Goto(t, "upsert_search")
    /\ UNCHANGED <<mhist, mmode, stackVars, queueVars>>

UpsertSearch(t) ==
    /\ At(t, "upsert_search")
    /\ LET s == search(hm, mth[t].b, mth[t].key, hash(mth[t].key))
       IN  IF s.ok
           THEN /\ mth' = [mth EXCEPT ![t].pc = "upsert_cas", ![t].s = s]
                /\ hm' = hm
           ELSE /\ Goto(t, "panic")
                /\ hm' = RUnlock(hm, mth[t].b, t)
    /\ UNCHANGED <<mhist, mmode, stackVars, queueVars>>

UpsertCas(t) ==
    /\ At(t, "upsert_cas")
    /\ LET c == upsertCas(hm, mth[t].b, mth[t].s, mth[t].key, mth[t].val,
                          hash(mth[t].key))
       IN  IF c.ok
           THEN /\ hm' = RUnlock(c.m, mth[t].b, t)
                /\ mth' = [mth EXCEPT
                             ![t].pc = IF c.inserted THEN "set_add"
                                       ELSE "set_overflow",
                             ![t].s = NoSearch]
           ELSE /\ hm' = hm
                /\ mth' = [mth EXCEPT ![t].pc = "upsert_search",
                                      ![t].s = NoSearch]
    /\ UNCHANGED <<mhist, mmode, stackVars, queueVars>>

SetAdd(t) ==
    /\ At(t, "set_add")
    /\ hm' = [hm EXCEPT !.count = @ + 1]
    /\ Goto(t, "set_overflow")
    /\ UNCHANGED <<mhist, mmode, stackVars, queueVars>>

SetOverflow(t) ==
    /\ At(t, "set_overflow")
    /\ IF isOverflow(hm)
       THEN Goto(t, "expand_lock") /\ mhist' = mhist
       ELSE MapReturn(t, Nil, FALSE)
    /\ UNCHANGED <<hm, mmode, stackVars, queueVars>>

\* an expand that does not look at isOverflow again under the map's lock
ExpandLockNoCheck(t) ==
    /\ At(t, "expand_lock")
    /\ hm.mutex = 0
    /\ hm' = [expandBegin(hm) EXCEPT !.mutex = t]
    /\ mth' = [mth EXCEPT ![t].pc = "expand_split",
                          ![t].i = Len(hm.buckets) - 1]
    /\ mhist' = mhist
    /\ UNCHANGED <<mmode, stackVars, queueVars>>

\* expand up to its loop: the map's lock, the second look at isOverflow, the
\* doubling of the directory
ExpandLock(t) ==
    /\ At(t, "expand_lock")
    /\ hm.mutex = 0
    /\ IF isOverflow(hm)
       THEN /\ hm' = [expandBegin(hm) EXCEPT !.mutex = t]
            /\ mth' = [mth EXCEPT ![t].pc = "expand_split",
                                  ![t].i = Len(hm.buckets) - 1]
            /\ mhist' = mhist
       ELSE /\ hm' = hm
            /\ MapReturn(t, Nil, FALSE)
    /\ UNCHANGED <<mmode, stackVars, queueVars>>

\* one turn of expand's loop: split takes the bucket's lock, cuts the chain
\* and releases the lock; after the last turn the map's lock is released
ExpandSplit(t) ==
    /\ At(t, "expand_split")
    /\ Free(hm, hm.buckets[mth[t].i + 1])
    /\ LET e == expandStep(hm, mth[t].i)
       IN  IF ~e.ok
           THEN /\ hm' = [Lock(hm, hm.buckets[mth[t].i + 1], t)
                            EXCEPT !.mutex = 0]
                /\ Goto(t, "panic")
                /\ mhist' = mhist
           ELSE IF mth[t].i = 0
                THEN /\ hm' = [e.m EXCEPT !.mutex = 0]
                     /\ MapReturn(t, Nil, FALSE)
                ELSE /\ hm' = e.m
                     /\ mth' = [mth EXCEPT ![t].i = @ - 1]
                     /\ mhist' = mhist
    /\ UNCHANGED <<mmode, stackVars, queueVars>>

(***************************************************************************)
(* hmap.Del                                                                *)
(***************************************************************************)
DelGetBucket(t) == Invoke(t, "Del", "del_lock")

DelLock(t) ==
    /\ At(t, "del_lock")
    /\ Free(hm, mth[t].b)
    /\ hm' = Lock(hm, mth[t].b, t)
    /\ Goto(t, "del_search")
    /\ UNCHANGED <<mhist, mmode, stackVars, queueVars>>

\* the search of del and, when the key is there, the store of nil to
\* curr.nxt: a plain store that the next line overwrites, which the build
\* may or may not let other goroutines see
DelSearch(t) ==
    /\ At(t, "del_search")
    /\ LET s == search(hm, mth[t].b, mth[t].key, hash(mth[t].key))
       IN  IF ~s.ok
           THEN /\ Goto(t, "panic")
                /\ hm' = Unlock(hm, mth[t].b)
           ELSE IF s.insert
                THEN /\ Goto(t, "del_underflow")
                     /\ hm' = Unlock(hm, mth[t].b)
                ELSE /\ mth' = [mth EXCEPT ![t].pc = "del_link", ![t].s = s]
                     /\ \E seen \in BOOLEAN :
                          hm' = IF seen THEN delNil(hm, s) ELSE hm
    /\ UNCHANGED <<mhist, mmode, stackVars, queueVars>>

DelLink(t) ==
    /\ At(t, "del_link")
    /\ hm' = Unlock(delLink(hm, mth[t].b, mth[t].s), mth[t].b)
    /\ mth' = [mth EXCEPT ![t].pc = "del_add", ![t].s = NoSearch]
    /\ UNCHANGED <<mhist, mmode, stackVars, queueVars>>

DelAdd(t) ==
    /\ At(t, "del_add")
    /\ hm' = [hm EXCEPT !.count = @ - 1]
    /\ Goto(t, "del_underflow")
    /\ UNCHANGED <<mhist, mmode, stackVars, queueVars>>

DelUnderflow(t) ==
    /\ At(t, "del_underflow")
    /\ IF isUnderflow(hm)
       THEN Goto(t, "shrink_lock") /\ mhist' = mhist
       ELSE MapReturn(t, Nil, FALSE)
    /\ UNCHANGED <<hm, mmode, stackVars, queueVars>>

\* a shrink that does not look at isUnderflow again under the map's lock
ShrinkLockNoCheck(t) ==
    /\ At(t, "shrink_lock")
    /\ hm.mutex = 0
    /\ hm' = [hm EXCEPT !.mutex = t]
    /\ mth' = [mth EXCEPT ![t].pc = "merge_even", ![t].i = 0]
    /\ UNCHANGED <<mhist, mmode, stackVars, queueVars>>

\* shrink up to its loop: the map's lock and the second look at isUnderflow
ShrinkLock(t) ==
    /\ At(t, "shrink_lock")
    /\ hm.mutex = 0
    /\ IF isUnderflow(hm)
       THEN /\ hm' = [hm EXCEPT !.mutex = t]
            /\ mth' = [mth EXCEPT ![t].pc = "merge_even", ![t].i = 0]
            /\ mhist' = mhist
       ELSE /\ hm' = hm
            /\ MapReturn(t, Nil, FALSE)
    /\ UNCHANGED <<mmode, stackVars, queueVars>>

\* merge takes the lock of the even bucket
MergeLockEven(t) ==
    /\ At(t, "merge_even")
    /\ Free(hm, hm.buckets[2 * mth[t].i + 1])
    /\ hm' = Lock(hm, hm.buckets[2 * mth[t].i + 1], t)
    /\ Goto(t, "merge_odd")
    /\ UNCHANGED <<mhist, mmode, stackVars, queueVars>>

\* merge takes the lock of the odd bucket, joins the chains and releases
\* both locks; the turn of shrink's loop ends, and after the last turn the
\* directory is halved and the map's lock released
MergeLockOdd(t) ==
    /\ At(t, "merge_odd")
    /\ Free(hm, hm.buckets[2 * mth[t].i + 2])
    /\ LET st == shrinkStep(hm, mth[t].i)
           even == hm.buckets[2 * mth[t].i + 1]
       IN  IF ~st.ok
           THEN /\ hm' = [Lock(hm, hm.buckets[2 * mth[t].i + 2], t)
                            EXCEPT !.mutex = 0]
                /\ Goto(t, "panic")
                /\ mhist' = mhist
           ELSE IF mth[t].i + 1 = Len(hm.buckets) \div 2
                THEN /\ hm' = [shrinkEnd(Unlock(st.m, even)) EXCEPT !.mutex = 0]
                     /\ MapReturn(t, Nil, FALSE)
                ELSE /\ hm' = Unlock(st.m, even)
                     /\ mth' = [mth EXCEPT ![t].pc = "merge_even",
                                           ![t].i = @ + 1]
                     /\ mhist' = mhist
    /\ UNCHANGED <<mmode, stackVars, queueVars>>

(***************************************************************************)
(* hmap.Get                                                                *)
(***************************************************************************)
GetGetBucket(t) == Invoke(t, "Get", "get_rlock")

GetRLock(t) ==
    /\ At(t, "get_rlock")
    /\ hm.bkt[mth[t].b].w = 0
    /\ hm' = RLock(hm, mth[t].b, t)
    /\ Goto(t, "get_walk")
    /\ UNCHANGED <<mhist, mmode, stackVars, queueVars>>

GetWalk(t) ==
    /\ At(t, "get_walk")
    /\ hm' = RUnlock(hm, mth[t].b, t)
    /\ LET g == get(hm, mth[t].b, mth[t].key, hash(mth[t].key))
       IN  IF g.ok
           THEN MapReturn(t, g.val, g.found)
           ELSE Goto(t, "panic") /\ mhist' = mhist
    /\ UNCHANGED <<mmode, stackVars, queueVars>>

NextMap ==
    \/ \E t \in DOMAIN mth : SetGetBucket(t)
    \/ \E t \in DOMAIN mth : UpsertRLock(t)
    \/ \E t \in DOMAIN mth : UpsertSearch(t)
    \/ \E t \in DOMAIN mth : UpsertCas(t)
    \/ \E t \in DOMAIN mth : SetAdd(t)
    \/ \E t \in DOMAIN mth : SetOverflow(t)
    \/ \E t \in DOMAIN mth : ExpandLock(t)
    \/ \E t \in DOMAIN mth : ExpandSplit(t)
    \/ \E t \in DOMAIN mth : DelGetBucket(t)
    \/ \E t \in DOMAIN mth : DelLock(t)
    \/ \E t \in DOMAIN mth : DelSearch(t)
    \/ \E t \in DOMAIN mth : DelLink(t)
    \/ \E t \in DOMAIN mth : DelAdd(t)
    \/ \E t \in DOMAIN mth : DelUnderflow(t)
    \/ \E t \in DOMAIN mth : ShrinkLock(t)
    \/ \E t \in DOMAIN mth : MergeLockEven(t)
    \/ \E t \in DOMAIN mth : MergeLockOdd(t)
    \/ \E t \in DOMAIN mth : GetGetBucket(t)
    \/ \E t \in DOMAIN mth : GetRLock(t)
    \/ \E t \in DOMAIN mth : GetWalk(t)

(***************************************************************************)
(* Iteration: hmap.Lock, hmap.Next, hmap.Unlock and hmap.Iterate.  The     *)
(* cursor (iter, curr) is part of the map.  A goroutine that iterates runs *)
(* a script, as the tests do; its calls are logged in its history.         *)
(***************************************************************************)
\* hmap.Lock: the map's exclusive lock and the cursor on the fence of
\* bucket 0
MapLock(m, t) ==
    [m EXCEPT !.mutex = t, !.iter = 0, !.curr = FenceOf(m.buckets[1])]

MapUnlock(m) == [m EXCEPT !.mutex = 0]

\* a Next that ends the iteration at the first fence it meets
RECURSIVE NextOneBucket(_)
NextOneBucket(m) ==
    LET nx == m.hn[m.curr].nxt
    IN  IF nx = Nil
        THEN [ok |-> FALSE, key |-> Nil, val |-> Nil, found |-> FALSE, m |-> m]
        ELSE IF ~isFence(m, nx)
             THEN [ok |-> TRUE, key |-> m.hn[nx].key, val |-> m.hn[nx].val,
                   found |-> TRUE, m |-> [m EXCEPT !.curr = nx]]
             ELSE [ok |-> TRUE, key |-> Nil, val |-> Nil, found |-> FALSE,
                   m |-> m]

\* hmap.Next: (key, value, found) and the map with the cursor moved; ok is
\* FALSE when it dereferences a nil pointer
RECURSIVE Next(_)
Next(m) ==
    LET nx == m.hn[m.curr].nxt
    IN  IF nx = Nil
        THEN [ok |-> FALSE, key |-> Nil, val |-> Nil, found |-> FALSE, m |-> m]
        ELSE IF ~isFence(m, nx)
             THEN [ok |-> TRUE, key |-> m.hn[nx].key, val |-> m.hn[nx].val,
                   found |-> TRUE, m |-> [m EXCEPT !.curr = nx]]
             ELSE IF m.iter = 2 ^ m.B - 1
                  THEN [ok |-> TRUE, key |-> Nil, val |-> Nil,
                        found |-> FALSE, m |-> m]
                  ELSE Next([m EXCEPT !.iter = @ + 1, !.curr = nx])

\* what the callback of Iterate may do: return nil, return an error, panic
FResults == {"nil", "error", "panic"}

\* the next call of goroutine t's script is op
Calls(t, op) ==
    /\ At(t, "idle")
    /\ mth[t].script # <<>>
    /\ Head(mth[t].script).op = op

Entry(op, key, val, ret, found) ==
    [op |-> op, key |-> key, val |-> val, ret |-> ret, found |-> found]

\* the call at the head of the script of t has returned, or Iterate has
Logged(t, entries) ==
    /\ mth' = [mth EXCEPT ![t] = [IdleMapThread(
                  IF mth[t].pc = "idle" THEN Tail(mth[t].script)
                  ELSE mth[t].script) EXCEPT !.done = mth[t].done]]
    /\ mhist' = [mhist EXCEPT ![t] = @ \o entries]

\* wg.Wait() of the tests: the other goroutines have all finished
WaitWorkers(t) ==
    /\ Calls(t, "Wait")
    /\ \A u \in DOMAIN mth \ {t} : mth[u].pc = "idle" /\ mth[u].script = <<>>
    /\ Logged(t, <<>>)
    /\ UNCHANGED <<hm, mmode, stackVars, queueVars>>

IterLock(t) ==
    /\ Calls(t, "Lock")
    /\ hm.mutex = 0
    /\ hm' = MapLock(hm, t)
    /\ Logged(t, <<Entry("Lock", Nil, Nil, Nil, FALSE)>>)
    /\ UNCHANGED <<mmode, stackVars, queueVars>>

IterNext(t) ==
    /\ Calls(t, "Next")
    /\ hm.mutex = t
    /\ LET r == Next(hm)
       IN  IF r.ok
           THEN /\ hm' = r.m
                /\ Logged(t, <<Entry("Next", r.key, Nil, r.val, r.found)>>)
           ELSE /\ hm' = hm
                /\ Goto(t, "panic")
                /\ mhist' = mhist
    /\ UNCHANGED <<mmode, stackVars, queueVars>>

IterUnlock(t) ==
    /\ Calls(t, "Unlock")
    /\ hm.mutex = t
    /\ hm' = MapUnlock(hm)
    /\ Logged(t, <<Entry("Unlock", Nil, Nil, Nil, FALSE)>>)
    /\ UNCHANGED <<mmode, stackVars, queueVars>>

\* Iterate: h.Lock(); defer h.Unlock()
IterateLock(t) ==
    /\ Calls(t, "Iterate")
    /\ hm.mutex = 0
    /\ hm' = MapLock(hm, t)
    /\ mth' = [mth EXCEPT ![t] = [@ EXCEPT !.pc = "iterate", !.op = "Iterate",
                                            !.script = Tail(@)]]
    /\ UNCHANGED <<mhist, mmode, stackVars, queueVars>>

\* an Iterate that has no deferred Unlock: it unlocks at its normal end only
IterateNextKeepsLock(t) ==
    /\ At(t, "iterate")
    /\ LET r == Next(hm)
       IN  IF ~r.ok
           THEN hm' = hm /\ Goto(t, "panic") /\ mhist' = mhist
           ELSE IF ~r.found
                THEN /\ hm' = MapUnlock(r.m)
                     /\ Logged(t, <<Entry("Iterate", Nil, Nil, "nil", FALSE)>>)
                ELSE \E out \in FResults :
                       /\ hm' = r.m
                       /\ IF out = "nil"
                          THEN /\ mhist' = [mhist EXCEPT ![t] = Append(@,
                                    Entry("f", r.key, r.val, "nil", TRUE))]
                               /\ mth' = mth
                          ELSE Logged(t, <<Entry("f", r.key, r.val, out, TRUE),
                                           Entry("Iterate", Nil, Nil, out, FALSE)>>)
    /\ UNCHANGED <<mmode, stackVars, queueVars>>

\* one turn of Iterate's loop: Next, and the call of f when Next found an
\* entry.  Iterate returns nil when Next found none, and the error of f when
\* f returns one; a panic of f leaves Iterate, whose caller recovers.  The
\* deferred Unlock runs on each of these ways out.
IterateNext(t) ==
    /\ At(t, "iterate")
    /\ LET r == Next(hm)
       IN  IF ~r.ok
           THEN /\ hm' = MapUnlock(hm)
                /\ Goto(t, "panic")
                /\ mhist' = mhist
           ELSE IF ~r.found
                THEN /\ hm' = MapUnlock(r.m)
                     /\ Logged(t, <<Entry("Iterate", Nil, Nil, "nil", FALSE)>>)
                ELSE \E out \in FResults :
                       IF out = "nil"
                       THEN /\ hm' = r.m
                            /\ mhist' = [mhist EXCEPT ![t] = Append(@,
                                    Entry("f", r.key, r.val, "nil", TRUE))]
                            /\ mth' = mth
                       ELSE /\ hm' = MapUnlock(r.m)
                            /\ Logged(t, <<Entry("f", r.key, r.val, out, TRUE),
                                           Entry("Iterate", Nil, Nil, out, FALSE)>>)
    /\ UNCHANGED <<mmode, stackVars, queueVars>>

NextMapIter ==
    \/ NextMap
    \/ \E t \in DOMAIN mth : WaitWorkers(t)
    \/ \E t \in DOMAIN mth : IterLock(t)
    \/ \E t \in DOMAIN mth : IterNext(t)
    \/ \E t \in DOMAIN mth : IterUnlock(t)
    \/ \E t \in DOMAIN mth : IterateLock(t)
    \/ \E t \in DOMAIN mth : IterateNext(t)

(***************************************************************************)
(* The starts of the map.  A scenario is a map that one goroutine has      *)
(* built from New by Set(k, k) for k = 1, 2, ... and then Del(k) for the   *)
(* last of these keys, which leaves keys 1 .. n, and what each goroutine   *)
(* is going to do.                                                         *)
(***************************************************************************)
\* the count at which a map of 2^B buckets grows
GrowAt(B) == (BucketSize + 1) * 2 ^ B

\* the smallest count that a map of 2^5 buckets, the smallest number that
\* can shrink, keeps without shrinking
KeepAt == (BucketSize \div 3 + 1) * 2 ^ 5

\* the new map
NewMap == New(BucketSize)

\* the maps of 2^0 and of 2^4 buckets that grow with the next insertion
FullMap0 == SetRange(NewMap, 1, GrowAt(0) - 1)

FullMap4 == SetRange(FullMap0, GrowAt(0), GrowAt(4) - 1)

\* the map of 2^5 buckets that shrinks with the next deletion
SparseMap5 ==
    DelRange(Set(FullMap4, GrowAt(4), GrowAt(4)), KeepAt + 1, GrowAt(4))

Scenario(mode, n, map, scripts) ==
    [mode |-> mode, n |-> n, map |-> map, scripts |-> scripts]

\* one goroutine that chooses its operations, on a new map, on maps whose
\* next insertion grows them and on a map whose next deletion shrinks it
SeqScenarios ==
    {Scenario("free", 0, NewMap, <<<<>>>>),
     Scenario("free", GrowAt(0) - 1, FullMap0, <<<<>>>>),
     Scenario("free", GrowAt(4) - 1, FullMap4, <<<<>>>>),
     Scenario("free", KeepAt, SparseMap5, <<<<>>>>)}

Op(op, key, val) == [op |-> op, key |-> key, val |-> val]

\* the worker of TestNewHashMap: Set, then Get, then Del of each of its keys
WorkerKey(t, j) == 100 * t + j

WorkerScript(t) ==
    [j \in 1..WorkerKeys |-> Op("Set", WorkerKey(t, j), WorkerKey(t, j) * WorkerKey(t, j))]
    \o [j \in 1..WorkerKeys |-> Op("Get", WorkerKey(t, j), Nil)]
    \o [j \in 1..WorkerKeys |-> Op("Del", WorkerKey(t, j), Nil)]

\* a key that is not in the map and whose hash is the lower bound of the
\* second of 2^5 buckets
EdgeKey ==
    CHOOSE k \in 1..(2 * HashSpace) :
        k > GrowAt(4) /\ hash(k) = 2 ^ (HashBits - 5)

\* the workers on a new map, and a map of 2^5 buckets at the count where one
\* more deletion shrinks it, with a worker that has its last key to delete
\* and a worker that starts on its first key
WorkerScenarios ==
    {Scenario("worker", 0, NewMap, [t \in 1..NMapThreads |-> WorkerScript(t)]),
     Scenario("worker", KeepAt, SparseMap5,
              [t \in 1..NMapThreads |->
                 IF t = 1
                 THEN <<Op("Del", 1, Nil)>>
                 ELSE IF t = 2
                      THEN <<Op("Set", EdgeKey, EdgeKey * EdgeKey),
                             Op("Get", EdgeKey, Nil), Op("Del", EdgeKey, Nil)>>
                      ELSE <<>>])}

MapStart(scenarios) ==
    \E sc \in scenarios :
        /\ hm = sc.map
        /\ mth = [t \in 1..Len(sc.scripts) |-> IdleMapThread(sc.scripts[t])]
        /\ mhist = [t \in 1..Len(sc.scripts) |-> <<>>]
        /\ mmode = [mode |-> sc.mode, n |-> sc.n]

(***************************************************************************)
(* Specifications                                                          *)
(***************************************************************************)
\* a part of the library that a specification does not use
NoStack == StackStart(0, {"none"})
NoQueue == QueueStart(0, {"none"})
NoMap == MapStart({Scenario("none", 0, NewMap, <<>>)})

\* the stack used by one goroutine, any operations
InitStackSeq == StackStart(1, {"free"}) /\ NoQueue /\ NoMap

SpecStackSeq == InitStackSeq /\ [][NextStack]_vars

\* the stack used by several goroutines: any operations, or the workers of
\* TestNewStack
InitStack ==
    StackStart(NStackThreads, {"free", "worker"}) /\ NoQueue /\ NoMap

SpecStack == InitStack /\ [][NextStack]_vars

\* the stack used by a pair of goroutines, any operations: the smallest case
\* in which one goroutine stops for good while another goes on
InitStackPair == StackStart(2, {"free"}) /\ NoQueue /\ NoMap

SpecStackPair == InitStackPair /\ [][NextStack]_vars

\* the queue used by one goroutine, any operations
InitQueueSeq == QueueStart(1, {"free"}) /\ NoStack /\ NoMap

SpecQueueSeq == InitQueueSeq /\ [][NextQueue]_vars

\* the queue used by several goroutines: any operations, or the workers of
\* TestNewQueue
InitQueue ==
    QueueStart(NQueueThreads, {"free", "worker"}) /\ NoStack /\ NoMap

SpecQueue == InitQueue /\ [][NextQueue]_vars

\* the map used by one goroutine, any operations
InitMapSeq == MapStart(SeqScenarios) /\ NoStack /\ NoQueue

SpecMapSeq == InitMapSeq /\ [][NextMap]_vars

\* the map used by the workers of TestNewHashMap
InitMap == MapStart(WorkerScenarios) /\ NoStack /\ NoQueue

SpecMap == InitMap /\ [][NextMap]_vars

\* a step of goroutine t on the map
MapStep(t) ==
    \/ SetGetBucket(t) \/ UpsertRLock(t) \/ UpsertSearch(t) \/ UpsertCas(t)
    \/ SetAdd(t) \/ SetOverflow(t) \/ ExpandLock(t) \/ ExpandSplit(t)
    \/ DelGetBucket(t) \/ DelLock(t) \/ DelSearch(t) \/ DelLink(t)
    \/ DelAdd(t) \/ DelUnderflow(t) \/ ShrinkLock(t)
    \/ MergeLockEven(t) \/ MergeLockOdd(t)
    \/ GetGetBucket(t) \/ GetRLock(t) \/ GetWalk(t)

\* the same under Go's scheduler, which lets every goroutine that can run
\* run
SpecMapFair == SpecMap /\ \A t \in 1..NMapThreads : WF_vars(MapStep(t))

(***************************************************************************)
(* The starts of the iteration: the scripts of TestHmap (Lock, Next until  *)
(* it finds nothing, Next again, Unlock) and of the README (Iterate), on   *)
(* maps with and without empty buckets, between operations that grow and   *)
(* shrink the map.                                                         *)
(***************************************************************************)
\* a map of 2^2 buckets with keys 1 .. 3, which leaves buckets empty
SparseMap2 ==
    DelRange(SetRange(FullMap0, GrowAt(0), GrowAt(1)), 4, GrowAt(1))

\* m.Lock(), k calls of m.Next(), m.Unlock()
Walk(k) ==
    <<Op("Lock", Nil, Nil)>> \o [j \in 1..k |-> Op("Next", Nil, Nil)]
    \o <<Op("Unlock", Nil, Nil)>>

IterScenarios ==
    {Scenario("iter", 0, NewMap,
              <<Walk(2) \o <<Op("Set", 1, 1)>> \o Walk(3)
                \o <<Op("Iterate", Nil, Nil)>>>>),
     Scenario("iter", GrowAt(0) - 1, FullMap0,
              <<<<Op("Set", 1 + HashSpace, 2)>> \o Walk(2)
                \o <<Op("Set", GrowAt(0), 3)>> \o Walk(GrowAt(0) + 3)
                \o <<Op("Iterate", Nil, Nil), Op("Get", 1, Nil)>>
                \o Walk(0)>>),
     Scenario("iter", 3, SparseMap2,
              <<Walk(5) \o <<Op("Del", 1, Nil), Op("Iterate", Nil, Nil),
                             Op("Del", 3, Nil)>> \o Walk(3)
                \o <<Op("Del", 2, Nil)>> \o Walk(2)
                \o <<Op("Iterate", Nil, Nil)>>>>),
     Scenario("iter", KeepAt, SparseMap5,
              <<<<Op("Del", 1, Nil)>> \o Walk(KeepAt + 1)
                \o <<Op("Iterate", Nil, Nil)>>>>),
     Scenario("iter", GrowAt(0) - 1, FullMap0,
              <<<<Op("Set", WorkerKey(1, 1), 1), Op("Get", WorkerKey(1, 1), Nil),
                  Op("Del", WorkerKey(1, 1), Nil)>>,
                <<Op("Set", WorkerKey(2, 1), 2), Op("Get", WorkerKey(2, 1), Nil),
                  Op("Del", WorkerKey(2, 1), Nil)>>,
                <<Op("Wait", Nil, Nil)>> \o Walk(GrowAt(0) + 3)
                \o <<Op("Iterate", Nil, Nil)>>>>)}

\* the map used by a goroutine that iterates
InitMapIter == MapStart(IterScenarios) /\ NoStack /\ NoQueue

SpecMapIter == InitMapIter /\ [][NextMapIter]_vars

\* an iteration while other goroutines are in their calls: one goroutine
\* walks the map with Lock(), Next() and Unlock(), the other replaces a
\* value, inserts a key and deletes a key
IterRaceScenarios ==
    {Scenario("iter", 2, SetRange(NewMap, 1, 2),
              <<Walk(4),
                <<Op("Set", 1, 7), Op("Set", WorkerKey(1, 1), 8),
                  Op("Del", 2, Nil)>>>>)}

InitMapIterRace ==
    MapStart(IterRaceScenarios \cup IterScenarios) /\ NoStack /\ NoQueue

SpecMapIterRace == InitMapIterRace /\ [][NextMapIter]_vars

\* workers that only add: each sets a key of its own, a key that is there
\* already, and another key of its own
SetScript(t) ==
    <<Op("Set", WorkerKey(t, 1), t), Op("Set", t, 0 - t),
      Op("Set", WorkerKey(t, 2), t)>>

\* the workers that only add, on the maps of 2^0 and of 2^4 buckets that
\* grow with the next insertion
SetScenarios ==
    {Scenario("worker", GrowAt(0) - 1, FullMap0,
              [t \in 1..NMapThreads |-> SetScript(t)]),
     Scenario("worker", GrowAt(4) - 1, FullMap4,
              [t \in 1..NMapThreads |-> SetScript(t)])}

\* the map of 2^6 buckets that shrinks with the next deletion: it holds
\* 2 * KeepAt keys
SparseMap6 ==
    CHOOSE r \in {DelRange(m, 2 * KeepAt + 1, GrowAt(5)) : m \in
                  {SetRange(FullMap4, GrowAt(4), GrowAt(5))}} : TRUE

\* workers that each delete one key of a map that shrinks with the next
\* deletion: they call shrink at once
ShrinkScenarios ==
    {Scenario("worker", KeepAt, SparseMap5,
              [t \in 1..NMapThreads |-> <<Op("Del", t, Nil)>>]),
     Scenario("worker", 2 * KeepAt, SparseMap6,
              [t \in 1..NMapThreads |-> <<Op("Del", t, Nil)>>])}

\* the map used by one goroutine, any operations, also on the map of 2^6
\* buckets, by workers that only Set or by workers that shrink it at once
InitMapResize ==
    /\ MapStart(SeqScenarios
                \cup {Scenario("free", 2 * KeepAt, SparseMap6, <<<<>>>>)}
                \cup SetScenarios \cup ShrinkScenarios)
    /\ NoStack /\ NoQueue

SpecMapResize == InitMapResize /\ [][NextMap]_vars

\* a key that is not in the map of 2^5 buckets and whose hash falls in a
\* bucket that shrink merges into its neighbour, below the hashes of all the
\* nodes of that bucket
LowKey ==
    CHOOSE k \in (KeepAt + 1)..HashSpace :
        LET slot(j) == hash(j) \div 2 ^ (HashBits - 5)
        IN  /\ slot(k) % 2 = 1
            /\ \E j \in 1..KeepAt : slot(j) = slot(k)
            /\ \A j \in 1..KeepAt : slot(j) = slot(k) => hash(j) > hash(k)

\* workers that insert into one bucket: keys of their own into the only
\* bucket of a new map, or all of them the same key and then a Get of it;
\* a goroutine that makes the map grow, reads and deletes; and workers that
\* all Set the same absent key of a map of 2^5 buckets, the last of them
\* after a Del that shrinks the map
InsertScenarios ==
    {Scenario("worker", 0, NewMap,
              [t \in 1..NMapThreads |->
                 <<Op("Set", WorkerKey(t, 1), t), Op("Set", WorkerKey(t, 2), t)>>]),
     Scenario("worker", 0, NewMap,
              [t \in 1..NMapThreads |->
                 <<Op("Set", 1, t), Op("Get", 1, Nil)>>]),
     Scenario("worker", GrowAt(0) - 1, FullMap0,
              [t \in 1..NMapThreads |->
                 IF t = 1
                 THEN <<Op("Set", GrowAt(0), 0), Op("Get", 1, Nil),
                        Op("Del", 1, Nil)>>
                 ELSE <<>>]),
     Scenario("worker", KeepAt, SparseMap5,
              [t \in 1..NMapThreads |->
                 IF t = NMapThreads
                 THEN <<Op("Del", 1, Nil), Op("Set", LowKey, t)>>
                 ELSE <<Op("Set", LowKey, t)>>])}

\* the map used by workers that insert into one bucket, or that shrink the
\* map at once
InitMapInsert ==
    MapStart(InsertScenarios \cup ShrinkScenarios) /\ NoStack /\ NoQueue

SpecMapInsert == InitMapInsert /\ [][NextMap]_vars

\* three goroutines on a new map: one Sets a key and reads it, one deletes
\* that key and Sets the key of the third, which Sets it too
RaceScenarios ==
    {Scenario("worker", 0, NewMap,
              <<<<Op("Set", 1, 1), Op("Get", 1, Nil)>>,
                <<Op("Del", 1, Nil), Op("Set", 3, 2)>>,
                <<Op("Set", 3, 3)>>>>)}

\* the map used by goroutines that Set and Del the same keys at once, or
\* that shrink the map at once
InitMapRace ==
    MapStart(RaceScenarios \cup ShrinkScenarios) /\ NoStack /\ NoQueue

SpecMapRace == InitMapRace /\ [][NextMap]_vars

(***************************************************************************)
(* A bucket on its own, as in TestBucket: upsert and del are called on the *)
(* only bucket of a new map with no goroutine but the caller; del is given *)
(* a key and any hash, also one that is not the hash of the key.  The calls*)
(* are logged with the hash as val.                                        *)
(***************************************************************************)
BucketKeys == {1, 2, 1 + HashSpace}

BucketUpsert ==
    /\ mmode.mode = "bucket" /\ mth[1].done < MaxMapSeqOps
    /\ \E key \in BucketKeys :
         LET u == upsert(hm, 1, key, SetVal(1, mth[1].done + 1), hash(key))
         IN  /\ hm' = u.m
             /\ mth' = [mth EXCEPT ![1].done = @ + 1]
             /\ mhist' = [mhist EXCEPT ![1] =
                            Append(@, [op |-> "Set", key |-> key,
                                       val |-> hash(key), ret |-> Nil,
                                       found |-> u.inserted])]
    /\ UNCHANGED <<mmode, stackVars, queueVars>>

BucketDel ==
    /\ mmode.mode = "bucket" /\ mth[1].done < MaxMapSeqOps
    /\ \E key \in BucketKeys, h \in {hash(k) : k \in BucketKeys} :
         LET d == del(hm, 1, key, h)
         IN  /\ hm' = d.m
             /\ mth' = [mth EXCEPT ![1].done = @ + 1]
             /\ mhist' = [mhist EXCEPT ![1] =
                            Append(@, [op |-> "Del", key |-> key,
                                       val |-> h, ret |-> Nil,
                                       found |-> d.removed])]
    /\ UNCHANGED <<mmode, stackVars, queueVars>>

NextBucket == BucketUpsert \/ BucketDel

InitBucket ==
    MapStart({Scenario("bucket", 0, NewMap, <<<<>>>>)}) /\ NoStack /\ NoQueue

SpecBucket == InitBucket /\ [][NextBucket]_vars

(***************************************************************************)
(* The counters of a map under one goroutine.  isOverflow and isUnderflow  *)
(* read bSize, B and count only, so the map is kept as these three fields: *)
(* bSize is any size that New leaves for a uint8 option, and B and count   *)
(* are those of a map between two calls, next to a threshold.              *)
(***************************************************************************)
Counters(size, B, count) == [bSize |-> New(size).bSize, B |-> B, count |-> count]

\* the counters that one goroutine can leave behind: no grow is due, and no
\* shrink
Settled(m) == m.count >= 0 /\ ~isOverflow(m) /\ ~isUnderflow(m)

\* Set of a key that is not in the map: count is incremented, and expand
\* adds 1 to B when isOverflow holds
CountersSet ==
    /\ mmode.mode = "counters" /\ mmode.n < MaxMapSeqOps
    /\ LET m == [hm EXCEPT !.count = @ + 1]
           r == IF isOverflow(m) THEN [m EXCEPT !.B = @ + 1] ELSE m
       IN  /\ hm' = r
           /\ mhist' = <<mhist[1]
                  \o <<Entry("Set", Nil, Nil, r.B, r.B # hm.B)>>>>
    /\ mmode' = [mmode EXCEPT !.n = @ + 1]
    /\ UNCHANGED <<mth, stackVars, queueVars>>

\* Del of a key that is in the map: count is decremented, and shrink takes 1
\* from B when isUnderflow holds
CountersDel ==
    /\ mmode.mode = "counters" /\ mmode.n < MaxMapSeqOps
    /\ hm.count > 0
    /\ LET m == [hm EXCEPT !.count = @ - 1]
           r == IF isUnderflow(m) THEN [m EXCEPT !.B = @ - 1] ELSE m
       IN  /\ hm' = r
           /\ mhist' = <<mhist[1]
                  \o <<Entry("Del", Nil, Nil, r.B, r.B # hm.B)>>>>
    /\ mmode' = [mmode EXCEPT !.n = @ + 1]
    /\ UNCHANGED <<mth, stackVars, queueVars>>

NextCounters == CountersSet \/ CountersDel

\* every size of the option, every B below the width of the hash, and the
\* counts within 2 of the count at which a map of 2^B buckets grows and of
\* the count at which it shrinks
InitCounters ==
    /\ \E size \in 0..(2 ^ 8 - 1), B \in 0..(HashBits - 1), d \in -2..2 :
          \E c \in {New(size).bSize + 1, New(size).bSize \div 3 + 1} :
             hm = Counters(size, B, c * 2 ^ B + d)
    /\ Settled(hm)
    /\ mth = <<>> /\ mhist = <<<<>>>>
    /\ mmode = [mode |-> "counters", n |-> 0]
    /\ NoStack /\ NoQueue

SpecCounters == InitCounters /\ [][NextCounters]_vars

(***************************************************************************)
(* Properties of the stack                                                 *)
(***************************************************************************)
\* history h replayed on the LIFO sequence abs (top first): every Pop
\* returned the top and removed it, or nil when nothing was left
RECURSIVE LifoOk(_, _)
LifoOk(h, abs) ==
    IF h = <<>> THEN TRUE
    ELSE LET e == Head(h) IN
         CASE e.op = "Push" -> LifoOk(Tail(h), <<e.arg>> \o abs)
           [] e.op = "Pop" ->
                IF abs = <<>> THEN e.ret = Nil /\ LifoOk(Tail(h), abs)
                ELSE e.ret = Head(abs) /\ LifoOk(Tail(h), Tail(abs))
           [] OTHER -> LifoOk(Tail(h), abs)

RECURSIVE Popped(_)
Popped(h) ==
    IF h = <<>> THEN <<>>
    ELSE (IF Head(h).op = "Pop" THEN <<Head(h).ret>> ELSE <<>>) \o Popped(Tail(h))

\* the values that the Pushes of history h pushed, in order
RECURSIVE Pushed(_)
Pushed(h) ==
    IF h = <<>> THEN <<>>
    ELSE (IF Head(h).op = "Push" THEN <<Head(h).arg>> ELSE <<>>) \o Pushed(Tail(h))

RECURSIVE AllHist(_, _)
AllHist(h, t) == IF t = 0 THEN <<>> ELSE AllHist(h, t - 1) \o h[t]

SeqToSet(q) == {q[i] : i \in 1..Len(q)}

NoRepeat(q) == \A i, j \in 1..Len(q) : i # j => q[i] # q[j]

\* every worker has popped as many times as it pushed and is not in a call
WorkersDone ==
    /\ smode = "worker"
    /\ \A t \in DOMAIN sth :
          /\ sth[t].pc = "idle"
          /\ Len(Popped(shist[t])) = Len(Pushed(shist[t]))

\* C7: workers push values of their own and then pop as many times as they
\* pushed: no Pop returns nil, no value is returned twice, and once all are
\* done every pushed value has been returned, Len() is 0 and Pop returns nil.
C7_StackWorkers ==
    smode = "worker" =>
       LET popped == Popped(AllHist(shist, Len(sth)))
           pushed == Pushed(AllHist(shist, Len(sth))) IN
       /\ \A i \in 1..Len(popped) : popped[i] # Nil
       /\ NoRepeat(popped)
       /\ WorkersDone =>
             /\ SeqToSet(popped) = SeqToSet(pushed)
             /\ StackLen(stk) = 0
             /\ next(stk, StackHead) = Nil

\* both workers pushed, one popped a value the other pushed, and all are done
C7_Witness ==
    /\ WorkersDone
    /\ \A t \in DOMAIN sth : Len(Pushed(shist[t])) >= 1
    /\ \E t \in DOMAIN sth : Popped(shist[t]) # <<>> /\
          Popped(shist[t])[1] \notin SeqToSet(Pushed(shist[t]))

PeekStep(t) ==
    \/ sth'[t].pc = "peek_val"
    \/ sth[t].pc = "peek_val"
    \/ Len(shist'[t]) = Len(shist[t]) + 1 /\ shist'[t][Len(shist'[t])].op = "Peek"

\* C9: Peek returns what a Pop that follows it at once returns (nil on an
\* empty stack), and no step of Peek changes the chain or Len().
C9_Peek ==
    /\ [](\A i \in 1..(Len(shist[1]) - 1) :
            (shist[1][i].op = "Peek" /\ shist[1][i + 1].op = "Pop") =>
                shist[1][i].ret = shist[1][i + 1].ret)
    /\ [][\A t \in DOMAIN sth : PeekStep(t) => stk' = stk]_vars

\* a Peek returned a value and the Pop after it returned the same
C9_Witness ==
    \E i \in 1..(Len(shist[1]) - 1) :
        /\ shist[1][i].op = "Peek" /\ shist[1][i].ret # Nil
        /\ shist[1][i + 1].op = "Pop"
        /\ \E j \in 1..(i - 1) : shist[1][j].op = "Peek" /\ shist[1][j].ret = Nil


(***************************************************************************)
(* Properties of the queue                                                 *)
(***************************************************************************)
\* history h replayed on the FIFO sequence abs (oldest first): every Deque
\* returned the oldest value and removed it, or nil when nothing was left
RECURSIVE FifoOk(_, _)
FifoOk(h, abs) ==
    IF h = <<>> THEN TRUE
    ELSE LET e == Head(h) IN
         CASE e.op = "Enque" -> FifoOk(Tail(h), Append(abs, e.arg))
           [] e.op = "Deque" ->
                IF abs = <<>> THEN e.ret = Nil /\ FifoOk(Tail(h), abs)
                ELSE e.ret = Head(abs) /\ FifoOk(Tail(h), Tail(abs))
           [] OTHER -> FifoOk(Tail(h), abs)

\* the step is the return of a Deque of goroutine t that found nothing
DequeEmptyStep(t) ==
    /\ Len(qhist'[t]) = Len(qhist[t]) + 1
    /\ qhist'[t][Len(qhist'[t])] = [op |-> "Deque", arg |-> Nil, ret |-> Nil]

\* C10: with one goroutine, Deque returns the oldest enqueued value that has
\* not been dequeued; on an empty queue it returns nil and changes nothing;
\* after every operation Len() is enqueues minus successful dequeues.
C10_QueueOrder ==
    /\ [](/\ FifoOk(qhist[1], <<>>)
          /\ qth[1].pc = "idle" =>
                QueueLen(que) = CountOps(qhist[1], "Enque", FALSE)
                                - CountOps(qhist[1], "Deque", TRUE))
    /\ [][\A t \in DOMAIN qth : DequeEmptyStep(t) => que' = que]_vars

\* enqueue(a); enqueue(b); dequeue gives a; dequeue gives b; dequeue gives nil
C10_Witness ==
    /\ Len(qhist[1]) = 5
    /\ qhist[1][1].op = "Enque" /\ qhist[1][2].op = "Enque"
    /\ qhist[1][3] = [op |-> "Deque", arg |-> Nil, ret |-> EnqueVal(1, 1)]
    /\ qhist[1][4] = [op |-> "Deque", arg |-> Nil, ret |-> EnqueVal(1, 2)]
    /\ qhist[1][5] = [op |-> "Deque", arg |-> Nil, ret |-> Nil]
    /\ QueueLen(que) = 0

(***************************************************************************)
(* Properties of the map                                                   *)
(***************************************************************************)
\* the value of key after the first j operations of history h, on a map
\* that had the keys 1 .. n with Set(k, k) at the start; Nil when absent
RECURSIVE ValueAfter(_, _, _, _)
ValueAfter(h, j, key, n) ==
    IF j = 0
    THEN IF key \in 1..n THEN key ELSE Nil
    ELSE IF h[j].key = key /\ h[j].op = "Set"
         THEN h[j].val
         ELSE IF h[j].key = key /\ h[j].op = "Del"
              THEN Nil
              ELSE ValueAfter(h, j - 1, key, n)

\* what Get(key) has to return after history h
Expected(h, key, n) ==
    [ok |-> TRUE, val |-> ValueAfter(h, Len(h), key, n),
     found |-> ValueAfter(h, Len(h), key, n) # Nil]

\* the keys that the one goroutine may have touched or that were there at
\* the start, and one more
SeqKeys == 1..(mmode.n + 1) \cup FreeKeys(mmode.n)

\* every Get in history h returned the value that the operations before it
\* in h left
GetsOk(h, n) ==
    \A j \in DOMAIN h :
        h[j].op = "Get" =>
            /\ h[j].ret = ValueAfter(h, j - 1, h[j].key, n)
            /\ h[j].found = (h[j].ret # Nil)

\* C1: with one goroutine on a map that grows and shrinks, every Get returns
\* (v, true) for the last Set(k, v) not followed by Del(k) and (nil, false)
\* for a key never set or deleted last; between operations this is what Get
\* returns for every key.
C1_FunctionalMap ==
    /\ GetsOk(mhist[1], mmode.n)
    /\ mth[1].pc = "idle" =>
          \A k \in SeqKeys : Get(hm, k) = Expected(mhist[1], k, mmode.n)

\* on the map of 2^5 buckets: Del(1) shrinks it to 2^4 buckets, then Set(1, v)
\* and Get(1) gives (v, true)
C1_Witness ==
    /\ mmode.n = KeepAt /\ hm.B = 4
    /\ Len(mhist[1]) = 3
    /\ mhist[1][1].op = "Del" /\ mhist[1][1].key = 1
    /\ mhist[1][2].op = "Set" /\ mhist[1][2].key = 1
    /\ mhist[1][3] = [op |-> "Get", key |-> 1, val |-> Nil,
                      ret |-> SetVal(1, 2), found |-> TRUE]

\* the number of keys that Get finds
Retrievable(m, keys) == Cardinality({k \in keys : Get(m, k).found})

\* the step is the return of an operation op of goroutine t, which leaves
\* the key as present as it was
SameKeysStep(t) ==
    /\ Len(mhist'[t]) = Len(mhist[t]) + 1
    /\ LET e == mhist'[t][Len(mhist'[t])]
           was == ValueAfter(mhist[t], Len(mhist[t]), e.key, mmode.n)
       IN  \/ e.op = "Set" /\ was # Nil
           \/ e.op = "Del" /\ was = Nil
           \/ e.op = "Get"

\* Len() when goroutine t invoked the operation that it is in: with one
\* goroutine, the number of keys that its history left
LenBefore(t) ==
    Cardinality({k \in SeqKeys :
                   ValueAfter(mhist[t], Len(mhist[t]), k, mmode.n) # Nil})

\* C5: with one goroutine, between operations Len() is the number of keys
\* that Get finds; a Set of a present key and a Del of an absent key return
\* with Len() as it was.
C5_LenSequential ==
    /\ [](mth[1].pc = "idle" => MapLen(hm) = Retrievable(hm, SeqKeys))
    /\ [][\A t \in DOMAIN mth :
            SameKeysStep(t) => MapLen(hm') = LenBefore(t)]_vars

\* on the map with GrowAt(0) - 1 keys: Set of a present key, Del of an absent
\* key, then Set of a new key, which grows the map
C5_Witness ==
    /\ mmode.n = GrowAt(0) - 1 /\ hm.B = 1
    /\ Len(mhist[1]) = 3
    /\ mhist[1][1].op = "Set" /\ mhist[1][1].key = 1
    /\ mhist[1][2].op = "Del" /\ mhist[1][2].key = 1 + HashSpace
    /\ mhist[1][3].op = "Set" /\ mhist[1][3].key = mmode.n + 1
    /\ MapLen(hm) = GrowAt(0)

\* every goroutine has returned from the last operation of its script
WorkersReturned ==
    \A t \in DOMAIN mth : mth[t].pc = "idle" /\ mth[t].script = <<>>

\* C2: a Get(k) that follows a returned Set(k, v) of its goroutine, with no
\* other operation on k by anyone, returns (v, true), whatever the other
\* goroutines do on other keys.
C2_ReadBack == \A t \in DOMAIN mth : GetsOk(mhist[t], mmode.n)

\* the keys that the workers use
WorkerKeySet ==
    UNION {{mhist[t][j].key : j \in DOMAIN mhist[t]} : t \in DOMAIN mhist}

\* the keys of the start that no worker has deleted
KeysLeft ==
    {k \in 1..mmode.n :
       \A t \in DOMAIN mhist : \A j \in DOMAIN mhist[t] :
          ~(mhist[t][j].op = "Del" /\ mhist[t][j].key = k)}

\* C3: once every worker has done Set, Get and Del on each of its keys,
\* Len() is the number of keys that no worker had (0 on a new map) and Get
\* finds none of the workers' keys.
C3_Emptiness ==
    WorkersReturned =>
        /\ MapLen(hm) = Cardinality(KeysLeft)
        /\ \A k \in WorkerKeySet : Get(hm, k) = [ok |-> TRUE, val |-> Nil,
                                                  found |-> FALSE]

\* C4: under fair scheduling every operation that is invoked returns.
C4_Progress == <>WorkersReturned

(***************************************************************************)
(* Properties of the queue used by several goroutines                      *)
(***************************************************************************)
\* the values that the Deques of history h returned, in order
RECURSIVE Dequed(_)
Dequed(h) ==
    IF h = <<>> THEN <<>>
    ELSE (IF Head(h).op = "Deque" THEN <<Head(h).ret>> ELSE <<>>)
         \o Dequed(Tail(h))

\* the values that the Enques of history h enqueued, in order
RECURSIVE Enqued(_)
Enqued(h) ==
    IF h = <<>> THEN <<>>
    ELSE (IF Head(h).op = "Enque" THEN <<Head(h).arg>> ELSE <<>>)
         \o Enqued(Tail(h))

\* every worker has dequeued as many times as it enqueued and is not in a
\* call
QueueWorkersDone ==
    /\ qmode = "worker"
    /\ \A t \in DOMAIN qth :
          /\ qth[t].pc = "idle"
          /\ Len(Dequed(qhist[t])) = Len(Enqued(qhist[t]))

\* C11: workers enqueue values of their own and then dequeue as many times
\* as they enqueued: no Deque returns nil, no value is returned twice, and
\* once all are done every enqueued value has been returned, Len() is 0 and
\* a Deque finds head.next nil.
C11_QueueWorkers ==
    qmode = "worker" =>
       LET dequed == Dequed(AllHist(qhist, Len(qth)))
           enqued == Enqued(AllHist(qhist, Len(qth))) IN
       /\ \A i \in 1..Len(dequed) : dequed[i] # Nil
       /\ NoRepeat(dequed)
       /\ QueueWorkersDone =>
             /\ SeqToSet(dequed) = SeqToSet(enqued)
             /\ QueueLen(que) = 0
             /\ next(que, que.head) = Nil

\* both workers enqueued, one dequeued a value the other enqueued, and all
\* are done
C11_Witness ==
    /\ QueueWorkersDone
    /\ \A t \in DOMAIN qth : Len(Enqued(qhist[t])) >= 1
    /\ \E t \in DOMAIN qth : Dequed(qhist[t]) # <<>> /\
          Dequed(qhist[t])[1] \notin SeqToSet(Enqued(qhist[t]))

\* the values of all nodes ever linked, from the first sentinel on: the
\* chain that the head pointer moves along
LinkedChain(q) == ChainFrom(q.nodes, q.nodes[QueueEmpty].nxt)

\* the place of value v in sequence c, 0 when it is not there
PlaceIn(c, v) ==
    IF \E i \in 1..Len(c) : c[i] = v
    THEN CHOOSE i \in 1..Len(c) : c[i] = v
    ELSE 0

\* a Deque that returns v has taken effect: its CAS on the head pointer
\* succeeded
DequeTaken(v) ==
    \/ \E t \in DOMAIN qth : qth[t].pc = "deq_add" /\ value(que, qth[t].n) = v
    \/ \E t \in DOMAIN qth : v \in SeqToSet(Dequed(qhist[t]))

\* C12: for values a and b that one goroutine enqueued in this order, a is
\* linked before b in the chain (and is linked once its Enque has returned),
\* and the Deque that returns b takes effect only after the Deque that
\* returns a has.
C12_ProducerFifo ==
    \A t \in DOMAIN qth :
       LET mine == Enqued(qhist[t])
           chain == LinkedChain(que) IN
       /\ \A i \in 1..Len(mine) : PlaceIn(chain, mine[i]) > 0
       /\ \A i, j \in 1..Len(mine) :
             i < j => /\ PlaceIn(chain, mine[i]) < PlaceIn(chain, mine[j])
                      /\ DequeTaken(mine[j]) => DequeTaken(mine[i])
       /\ \A i \in 1..Len(mine) :
             (qth[t].op = "Enque" /\ PlaceIn(chain, qth[t].arg) > 0) =>
                 /\ PlaceIn(chain, mine[i]) < PlaceIn(chain, qth[t].arg)
                 /\ DequeTaken(qth[t].arg) => DequeTaken(mine[i])

\* goroutine t enqueued a and then b, another goroutine's value was linked
\* between them, and both a and b have been dequeued
C12_Witness ==
    \E t, u \in DOMAIN qth :
       /\ t # u
       /\ Len(Enqued(qhist[t])) >= 2 /\ Len(Enqued(qhist[u])) >= 1
       /\ LET chain == LinkedChain(que)
              a == Enqued(qhist[t])[1]
              b == Enqued(qhist[t])[2]
              c == Enqued(qhist[u])[1] IN
          /\ PlaceIn(chain, a) < PlaceIn(chain, c)
          /\ PlaceIn(chain, c) < PlaceIn(chain, b)
          /\ DequeTaken(a) /\ DequeTaken(b)

(***************************************************************************)
(* Progress of the stack                                                   *)
(***************************************************************************)
\* a step of goroutine t in Push, Pop or Peek
StackStep(t) ==
    \/ PushLoad(t) \/ PushCas(t) \/ PushAdd(t)
    \/ PopLoad(t) \/ PopNext(t) \/ PopCas(t) \/ PopAdd(t)
    \/ PeekLoad(t) \/ PeekValue(t)

\* goroutine t is inside Push, Pop or Peek
InStack(t) == sth[t].pc # "idle"

\* C13: no goroutine inside Push, Pop or Peek waits for another one (a step
\* of its own is always possible), and a goroutine that keeps taking steps
\* returns from its operation wherever the others stop, the others' CAS
\* successes being finitely many.
C13_StackNonBlocking ==
    /\ [](\A t \in DOMAIN sth : InStack(t) => ENABLED StackStep(t))
    /\ \A t \in 1..2 :
          WF_vars(StackStep(t)) => (InStack(t) ~> ~InStack(t))

\* goroutine u stands before a CAS whose expected value is no longer the
\* top, and goroutine t has completed two operations
C13_Witness ==
    \E t, u \in DOMAIN sth :
       /\ t # u
       /\ sth[u].pc \in {"push_cas", "pop_cas"}
       /\ sth[u].tip # next(stk, StackHead)
       /\ sth[t].pc = "idle" /\ Len(shist[t]) >= 2

(***************************************************************************)
(* Progress of the queue                                                   *)
(***************************************************************************)
\* a step of goroutine t in Enque or Deque
QueueStep(t) ==
    \/ EnqueLoad(t) \/ EnqueCas(t) \/ EnqueStore(t) \/ EnqueAdd(t)
    \/ DequeLoad(t) \/ DequeNext(t) \/ DequeCas(t) \/ DequeAdd(t)

\* goroutine t is inside Enque
InEnque(t) == qth[t].pc \in {"enq_load", "enq_cas", "enq_store", "enq_add"}

\* the queue's goroutines with goroutine 1 free to stop for ever at any
\* point, all the others scheduled again and again
SpecQueueSuspend ==
    SpecQueue /\ \A t \in 2..NQueueThreads : WF_vars(QueueStep(t))

\* C14: with goroutine 1 suspended at any point inside Enque or Deque, every
\* Enque of another goroutine returns.
C14_QueueLockFree ==
    \A t \in 2..NQueueThreads : InEnque(t) ~> ~InEnque(t)

(***************************************************************************)
(* Properties of the iteration                                             *)
(***************************************************************************)
\* the entries (key, value) from node n up to the next fence
RECURSIVE EntriesFrom(_, _)
EntriesFrom(m, n) ==
    IF n = Nil \/ isFence(m, n) THEN <<>>
    ELSE <<[key |-> m.hn[n].key, val |-> m.hn[n].val]>>
         \o EntriesFrom(m, m.hn[n].nxt)

\* the entries of the buckets in slots lo .. hi of the directory
RECURSIVE EntriesOf(_, _, _)
EntriesOf(m, lo, hi) ==
    IF lo = hi
    THEN EntriesFrom(m, m.hn[FenceOf(m.buckets[lo])].nxt)
    ELSE EntriesOf(m, lo, (lo + hi) \div 2)
         \o EntriesOf(m, (lo + hi) \div 2 + 1, hi)

\* the entries of the map in the order of the chain, from bucket 0 on
ChainEntries(m) == EntriesOf(m, 1, Len(m.buckets))

\* the keys that Get finds, among all keys that ever had a node
LiveKeys(m) == {k \in DOMAIN m.hn : k > 0 /\ Get(m, k).found}

\* the place of the last entry of history h that is a call of op, 0 if none
LastCall(h, op) ==
    IF \E j \in DOMAIN h : h[j].op = op
    THEN CHOOSE j \in DOMAIN h :
             h[j].op = op /\ \A i \in DOMAIN h : h[i].op = op => i <= j
    ELSE 0

\* what goroutine t has logged since its last Lock()
SinceLock(t) ==
    SubSeq(mhist[t], LastCall(mhist[t], "Lock") + 1, Len(mhist[t]))

\* goroutine t is between Lock() and Unlock()
Iterating(t) ==
    /\ hm.mutex = t /\ mth[t].pc = "idle"
    /\ LastCall(mhist[t], "Lock") > 0

\* C15: between Lock() and Unlock(), with nothing else in flight, the calls
\* of Next() so far returned the entries of the chain from the first entry
\* of bucket 0 on, each with the value that Get finds, none twice; a Next()
\* that returned (nil, nil, false) came when every key that Get finds had
\* been returned, and every Next() after it returned (nil, nil, false) too.
\* No Next() dereferences nil.
C15_IterationCoverage ==
    \A t \in DOMAIN mth :
       /\ ~(mth[t].pc = "panic" /\ mth[t].op = "none")
       /\ Iterating(t) =>
            LET seg == SinceLock(t)
                chain == ChainEntries(hm) IN
            \A i \in 1..Len(seg) :
               /\ seg[i].op = "Next"
               /\ seg[i].found =>
                    /\ i <= Len(chain)
                    /\ seg[i].key = chain[i].key /\ seg[i].ret = chain[i].val
                    /\ Get(hm, seg[i].key) =
                          [ok |-> TRUE, val |-> seg[i].ret, found |-> TRUE]
                    /\ \A j \in 1..(i - 1) :
                          seg[j].found /\ seg[j].key # seg[i].key
               /\ ~seg[i].found =>
                    /\ seg[i].key = Nil /\ seg[i].ret = Nil
                    /\ {seg[j].key : j \in {x \in 1..(i - 1) : seg[x].found}}
                          = LiveKeys(hm)
                    /\ \A j \in (i + 1)..Len(seg) : ~seg[j].found

\* on the map of 2^2 buckets from which keys 1 and 3 were deleted, three of
\* whose buckets are empty: a second Lock(), then Next() gives key 2 and
\* then twice (nil, nil, false)
C15_Witness ==
    /\ mmode.n = 3 /\ hm.B = 2 /\ Iterating(1)
    /\ Cardinality({j \in DOMAIN mhist[1] : mhist[1][j].op = "Lock"}) = 2
    /\ SinceLock(1) = <<Entry("Next", 2, Nil, 2, TRUE),
                        Entry("Next", Nil, Nil, Nil, FALSE),
                        Entry("Next", Nil, Nil, Nil, FALSE)>>

\* the calls of f at the end of history h
RECURSIVE TrailingF(_)
TrailingF(h) ==
    IF h = <<>> \/ h[Len(h)].op # "f" THEN <<>>
    ELSE Append(TrailingF(SubSeq(h, 1, Len(h) - 1)), h[Len(h)])

\* the calls of f were made on the first entries of the chain, in order
InNextOrder(calls, chain) ==
    /\ Len(calls) <= Len(chain)
    /\ \A i \in 1..Len(calls) :
          calls[i].key = chain[i].key /\ calls[i].val = chain[i].val

\* the step is the return of Iterate to goroutine t
IterateReturns(t) == mth[t].pc = "iterate" /\ mth'[t].pc = "idle"

\* C16: Iterate calls f on the entries in the order of Next; when f returns
\* an error (or panics) Iterate returns that error with no further call of
\* f, and it returns nil when f was called on every entry and never failed;
\* on each of these ways out the map's lock is free, so that the next Lock,
\* Set, Get or Del can take it.
C16_Iterate ==
    /\ [](\A t \in DOMAIN mth :
            mth[t].pc = "iterate" =>
               /\ hm.mutex = t
               /\ InNextOrder(TrailingF(mhist[t]), ChainEntries(hm))
               /\ \A i \in DOMAIN TrailingF(mhist[t]) :
                     TrailingF(mhist[t])[i].ret = "nil")
    /\ [][\A t \in DOMAIN mth :
            IterateReturns(t) =>
               LET h == mhist'[t]
                   e == h[Len(h)]
                   calls == TrailingF(SubSeq(h, 1, Len(h) - 1))
                   chain == ChainEntries(hm) IN
               /\ e.op = "Iterate"
               /\ hm'.mutex = 0
               /\ InNextOrder(calls, chain)
               /\ \A i \in 1..(Len(calls) - 1) : calls[i].ret = "nil"
               /\ IF e.ret = "nil"
                  THEN /\ Len(calls) = Len(chain)
                       /\ \A i \in DOMAIN calls : calls[i].ret = "nil"
                  ELSE /\ calls # <<>>
                       /\ calls[Len(calls)].ret = e.ret]_vars

\* f returned nil and then an error, Iterate returned the error, and the
\* goroutine's Get and Lock that followed went through
C16_Witness ==
    \E j \in 1..(Len(mhist[1]) - 4) :
       LET h == mhist[1] IN
       /\ h[j].op = "f" /\ h[j].ret = "nil"
       /\ h[j + 1].op = "f" /\ h[j + 1].ret = "error"
       /\ h[j + 2] = Entry("Iterate", Nil, Nil, "error", FALSE)
       /\ h[j + 3].op = "Get" /\ h[j + 3].found
       /\ h[j + 4].op = "Lock"

(***************************************************************************)
(* Properties of growing and shrinking                                     *)
(***************************************************************************)
\* count >> B <= S
WithinSize(m) == m.count \div 2 ^ m.B <= m.bSize

\* no goroutine is inside an operation
Quiescent == \A t \in DOMAIN mth : mth[t].pc = "idle"

\* no operation but Set has been invoked
SetsOnly ==
    \A t \in DOMAIN mth : \A j \in DOMAIN mhist[t] : mhist[t][j].op = "Set"

Underflow(m) == m.B > 4 /\ m.count \div 2 ^ m.B <= m.bSize \div 3

\* C18: with one goroutine, when a Del has returned the shrink condition is
\* false: the one shrink that a Del performs is enough.
C18_ShrinkConverges ==
    (/\ Len(mth) = 1 /\ Quiescent
     /\ mhist[1] # <<>> /\ mhist[1][Len(mhist[1])].op = "Del")
       => ~Underflow(hm)

\* the Del of a key of the map of 2^6 buckets has shrunk it to 2^5 buckets,
\* which is more than the floor of 2^4
C18_Witness ==
    /\ Len(mth) = 1 /\ Quiescent
    /\ mmode.n = 2 * KeepAt /\ hm.B = 5 /\ MapLen(hm) = 2 * KeepAt - 1
    /\ mhist[1] = <<Entry("Del", 1, Nil, Nil, FALSE)>>

\* C19: B goes down only by one and only from 5 or more, whether one
\* goroutine shrinks or several call shrink at once; a map of 2^4 or more
\* buckets never has fewer than 2^4.
C19_ShrinkFloor ==
    /\ [][hm'.B < hm.B => (hm.B >= 5 /\ hm'.B = hm.B - 1)]_vars
    /\ [](mmode.n >= GrowAt(3) => hm.B >= 4)

\* a goroutine has shrunk the map to 2^4 buckets and another one, which saw
\* the underflow before that, is about to take the map's lock in shrink
C19_Witness ==
    \E t, u \in DOMAIN mth :
       /\ t # u
       /\ mmode.n = KeepAt /\ hm.B = 4 /\ hm.mutex = 0
       /\ mth[t].pc = "idle" /\ mhist[t] # <<>>
       /\ mth[u].pc = "shrink_lock"


\* the first node from n on that is not the fence of a bucket, Nil at the
\* end of the chain
RECURSIVE EntryAfter(_, _)
EntryAfter(m, n) ==
    IF n = Nil \/ ~isFence(m, n) THEN n ELSE EntryAfter(m, m.hn[n].nxt)

\* maps m and m2 hold the same hash-nodes in the same order: the same first
\* entry, after every entry the same entry, in every entry the same hash,
\* key and value
SameChain(m, m2) ==
    /\ {n \in DOMAIN m2.hn : n > 0} = {n \in DOMAIN m.hn : n > 0}
    /\ EntryAfter(m2, FenceOf(m2.buckets[1]))
         = EntryAfter(m, FenceOf(m.buckets[1]))
    /\ \A n \in DOMAIN m.hn :
          n > 0 => /\ m2.hn[n].hash = m.hn[n].hash
                   /\ m2.hn[n].key = m.hn[n].key
                   /\ m2.hn[n].val = m.hn[n].val
                   /\ EntryAfter(m2, m2.hn[n].nxt) = EntryAfter(m, m.hn[n].nxt)

\* Get finds in m2 what it finds in m, for every key that ever had a node
SameGets(m, m2) ==
    \A k \in DOMAIN m.hn : k > 0 => Get(m2, k) = Get(m, k)

\* goroutine t is about to run expand, or shrink, with nothing else in
\* flight
AloneAt(t, pc) ==
    /\ At(t, pc) /\ hm.mutex = 0
    /\ \A u \in DOMAIN mth :
          u # t => mth[u].pc \in {"idle", "expand_lock", "shrink_lock"}

\* goroutine t takes a step of expand or of shrink
ResizeStep(t) ==
    /\ mth[t].pc \in {"expand_lock", "expand_split", "shrink_lock",
                      "merge_even", "merge_odd"}
    /\ mth'[t] # mth[t]

Unsupported(t) ==
    /\ mth[t].pc = "panic" /\ mth[t].op \in {"Set", "Get", "Del"}
    /\ ~hashable(mth[t].key)

\* goroutine t holds the map's lock or a lock of a bucket
HoldsLock(t) ==
    \/ hm.mutex = t
    \/ \E b \in DOMAIN hm.bkt : hm.bkt[b].w = t \/ t \in hm.bkt[b].r

\* C21: a Set, Get or Del with a key of a kind that hash does not know
\* panics in its first step; the goroutine holds no lock then, and the step
\* leaves the chain, the directory, B and the counts of the map and of every
\* bucket as they were.
C21_UnsupportedKey ==
    /\ [](\A t \in DOMAIN mth : Unsupported(t) => ~HoldsLock(t))
    /\ [][\A t \in DOMAIN mth :
             \A op \in {"Set", "Get", "Del"} :
                (/\ mth[t].pc = "idle"
                 /\ mth'[t].op = op /\ ~hashable(mth'[t].key))
                    => /\ mth'[t].pc = "panic"
                       /\ hm' = hm]_vars

\* a Del of such a key has panicked on a map that held keys and had seen a
\* Set before
C21_Witness ==
    /\ Len(mth) = 1 /\ Unsupported(1) /\ mth[1].op = "Del"
    /\ MapLen(hm) = GrowAt(0) /\ hm.B = 1
    /\ Len(mhist[1]) = 1 /\ mhist[1][1].op = "Set"


(***************************************************************************)
(* Properties of the chain                                                 *)
(***************************************************************************)
\* the walk along the successor pointers from node n, which was reached
\* from a node of hash h, up to the next fence: that fence when no hash goes
\* down on the way, Nil when one does or when the walk meets a nil pointer
RECURSIVE SortedTo(_, _, _)
SortedTo(m, n, h) ==
    IF n = Nil THEN Nil
    ELSE IF m.hn[n].hash < h THEN Nil
    ELSE IF isFence(m, n) THEN n
    ELSE SortedTo(m, m.hn[n].nxt, m.hn[n].hash)

\* the walk from fence f on, fence by fence: no hash goes down and the walk
\* ends at the terminal fence
RECURSIVE SortedFrom(_, _)
SortedFrom(m, f) ==
    IF f = Nil THEN FALSE
    ELSE IF f = TermFence THEN TRUE
    ELSE SortedFrom(m, SortedTo(m, m.hn[f].nxt, m.hn[f].hash))

SortedChain(m) == SortedFrom(m, FenceOf(m.buckets[1]))

\* goroutine t is between the two writes of del to curr.nxt: the first one
\* has made it nil
InUnlink(t) == mth[t].pc = "del_link"

\* C22: in every state in which no goroutine is between the two writes of
\* del, the walk from the start fence of bucket 0 meets no hash that is
\* lower than the one before and ends at the terminal fence.
C22_SortedChain ==
    (\E t \in DOMAIN mth : InUnlink(t)) \/ SortedChain(hm)


\* goroutine t holds the lock of the bucket that getBucket gave to its Get,
\* Set or Del
InBucket(t) ==
    mth[t].pc \in {"upsert_search", "upsert_cas", "get_walk",
                   "del_search", "del_link"}

\* C23: a goroutine that holds the lock of the bucket that getBucket gave
\* it, while nobody grows or shrinks the map, holds the bucket that the
\* directory has for the hash of its key.
C23_BucketValid ==
    \A t \in DOMAIN mth :
       (InBucket(t) /\ hm.mutex = 0 /\ ~Crashed)
          => mth[t].b = getBucket(hm, hash(mth[t].key))


\* the hash-nodes from node n up to the next fence
RECURSIVE Segment(_, _)
Segment(m, n) ==
    IF n = Nil \/ isFence(m, n) THEN {} ELSE {n} \cup Segment(m, m.hn[n].nxt)

\* the hash-nodes of the bucket that the directory has for hash h
SegmentOf(m, h) == Segment(m, m.hn[FenceOf(getBucket(m, h))].nxt)

\* the last operation on key k that has returned is the j-th one of
\* goroutine t, a Set; no other goroutine has used the key
LastIsSet(t, j) ==
    /\ mhist[t][j].op = "Set"
    /\ \A i \in DOMAIN mhist[t] : i > j => mhist[t][i].key # mhist[t][j].key
    /\ \A u \in DOMAIN mhist : \A i \in DOMAIN mhist[u] :
          u # t => mhist[u][i].key # mhist[t][j].key

\* C24: with no operation in flight, the node of every key whose last
\* operation is a Set is in the chain between the start fence of the
\* directory slot of its hash and the next fence.
C24_NoLostEntry ==
    Quiescent =>
       \A t \in DOMAIN mhist : \A j \in DOMAIN mhist[t] :
          LastIsSet(t, j) =>
             NodeOf(mhist[t][j].key) \in SegmentOf(hm, hash(mhist[t][j].key))


\* goroutine u stands before the CAS of upsert, or between the two writes
\* of a del of its own, on the successor pointer of node n
OnSuccessorOf(u, n) ==
    mth[u].pc \in {"upsert_cas", "del_link"} /\ mth[u].s.curr = n

\* C25: while a goroutine is between the two writes of del, no other
\* goroutine stands before a CAS or a write of the successor pointer of the
\* node that del writes to or of the node that del unlinks.
C25_DelExclusive ==
    \A t, u \in DOMAIN mth :
       (t # u /\ InUnlink(t) /\ ~Crashed)
          => /\ ~OnSuccessorOf(u, mth[t].s.curr)
             /\ ~OnSuccessorOf(u, mth[t].s.next)


(***************************************************************************)
(* Properties of the insertions into one bucket                            *)
(***************************************************************************)
\* the keys of the Sets that have returned
KeysSet ==
    {mhist[t][j].key : <<t, j>> \in
       {<<t, j>> \in (DOMAIN mhist) \X (1..(3 * WorkerKeys)) :
          j \in DOMAIN mhist[t] /\ mhist[t][j].op = "Set"}}

\* the workers have used the only bucket of the map, which was never split,
\* and have deleted nothing
OneBucket ==
    /\ mmode.mode = "worker" /\ Len(hm.bkt) = 1
    /\ \A t \in DOMAIN mth :
          /\ mth[t].op # "Del"
          /\ \A j \in DOMAIN mhist[t] : mhist[t][j].op # "Del"

\* C26: workers that insert keys into one bucket, with no delete, split or
\* merge: when their Sets have returned, the nodes of the keys are all in
\* the chain of the bucket, the chain is sorted, and the counts of the
\* bucket and of the map have grown by the number of new keys; under fair
\* scheduling every worker returns from all its Sets.
C26_ConcurrentInserts ==
    /\ []((OneBucket /\ Quiescent) =>
            /\ \A k \in KeysSet : NodeOf(k) \in Segment(hm, hm.hn[FenceOf(1)].nxt)
            /\ SortedChain(hm)
            /\ hm.bkt[1].count = mmode.n + Cardinality(KeysSet \ (1..mmode.n))
            /\ MapLen(hm) = hm.bkt[1].count)
    /\ (\A t \in 1..NMapThreads : WF_vars(MapStep(t)))
          => (OneBucket ~> (WorkersReturned \/ ~OneBucket))

\* all workers have returned from their Sets of keys of their own into the
\* one bucket, which holds a node for each of the keys
C26_Witness ==
    /\ OneBucket /\ WorkersReturned
    /\ KeysSet = {WorkerKey(t, j) : t \in 1..NMapThreads, j \in 1..2}
    /\ hm.bkt[1].count = 2 * NMapThreads


(***************************************************************************)
(* Properties of the keys in the chain                                     *)
(***************************************************************************)
\* the keys of the Dels that have returned
KeysDeleted ==
    {mhist[t][j].key : <<t, j>> \in
       {<<t, j>> \in (DOMAIN mhist) \X (1..(3 * WorkerKeys)) :
          j \in DOMAIN mhist[t] /\ mhist[t][j].op = "Del"}}

\* the values of the Sets of key k that have returned
ValuesSet(k) ==
    {mhist[t][j].val : <<t, j>> \in
       {<<t, j>> \in (DOMAIN mhist) \X (1..(3 * WorkerKeys)) :
          /\ j \in DOMAIN mhist[t]
          /\ mhist[t][j].op = "Set" /\ mhist[t][j].key = k}}

\* C27: when the workers have returned and none of them has deleted a key
\* that a worker has set, every key that was set, by one worker or by
\* several at once, has been inserted once: Len() is the number of keys of
\* the start that are left plus the number of new keys set, and the value
\* stored for a key is the value of one of its Sets.
C27_KeyUniqueness ==
    (mmode.mode = "worker" /\ WorkersReturned /\ KeysSet \cap KeysDeleted = {})
        => /\ MapLen(hm) = Cardinality(KeysLeft \cup KeysSet)
           /\ \A k \in KeysSet :
                 /\ Get(hm, k).found
                 /\ Get(hm, k).val \in ValuesSet(k)


(***************************************************************************)
(* Properties of the directory                                             *)
(***************************************************************************)
\* the fence that ends the segment of node n (Nil when the chain ends, or
\* does not end within k nodes)
RECURSIVE FenceAfter(_, _, _)
FenceAfter(m, n, k) ==
    IF n = Nil \/ k = 0
    THEN Nil
    ELSE IF isFence(m, n) THEN n ELSE FenceAfter(m, m.hn[n].nxt, k - 1)

\* the directory has 2^B slots, each with a bucket of its own whose fence
\* has the lower bound of the slot as its hash, and the chain of each slot
\* runs to the fence of the next one
DirectoryOk(m) ==
    /\ Len(m.buckets) = 2 ^ m.B
    /\ \A i \in 1..Len(m.buckets) :
          /\ m.buckets[i] \in 1..Len(m.bkt)
          /\ \A j \in 1..Len(m.buckets) : m.buckets[j] = m.buckets[i] => j = i
          /\ m.hn[FenceOf(m.buckets[i])].hash = (i - 1) * 2 ^ (HashBits - m.B)
          /\ FenceAfter(m, m.hn[FenceOf(m.buckets[i])].nxt, HashSpace)
               = IF i = Len(m.buckets) THEN TermFence
                 ELSE FenceOf(m.buckets[i + 1])

\* C28: whenever no goroutine holds the map's lock for writing, and none is
\* between the two writes of del, the directory has 2^B slots with distinct
\* buckets, the fence of slot i has hash i << (64 - B), and the chain from
\* it runs to the fence of slot i + 1 (the terminal fence for the last slot)
\* with no other fence on the way.
C28_Directory ==
    (hm.mutex = 0 /\ \A t \in DOMAIN mth : ~InUnlink(t)) => DirectoryOk(hm)


(***************************************************************************)
(* Properties of split and del                                             *)
(***************************************************************************)
\* the hash-nodes of bucket b
NodesOf(m, b) == Segment(m, m.hn[FenceOf(b)].nxt)

\* goroutine t's turn of expand's loop splits bucket b of hm, whose counter
\* is the number of its nodes, at pivot pv into b and nb
SplitDone(t, b, nb, pv) ==
    /\ hm'.hn[FenceOf(nb)].hash = pv
    /\ FenceAfter(hm', hm'.hn[FenceOf(b)].nxt, HashSpace) = FenceOf(nb)
    /\ NodesOf(hm', b) = {n \in NodesOf(hm, b) : hm.hn[n].hash < pv}
    /\ NodesOf(hm', nb) = {n \in NodesOf(hm, b) : hm.hn[n].hash >= pv}
    /\ hm'.bkt[b].count = Cardinality(NodesOf(hm', b))
    /\ hm'.bkt[nb].count = Cardinality(NodesOf(hm', nb))
    /\ hm'.bkt[b].count + hm'.bkt[nb].count = hm.bkt[b].count

\* C29: a split at pivot of a bucket whose counter is the number of its
\* nodes leaves in it the nodes with hash < pivot and gives the new bucket,
\* whose fence has hash pivot, the nodes with hash >= pivot; the counters
\* are the numbers of these nodes and add up to the old counter.
C29_Split ==
    [][\A t \in DOMAIN mth :
         (/\ mth[t].pc = "expand_split" /\ hm.mutex = t
          /\ Len(hm'.bkt) = Len(hm.bkt) + 1
          /\ hm.bkt[hm.buckets[mth[t].i + 1]].count
               = Cardinality(NodesOf(hm, hm.buckets[mth[t].i + 1])))
         => SplitDone(t, hm.buckets[mth[t].i + 1], Len(hm'.bkt),
                      (2 * mth[t].i + 1) * 2 ^ (HashBits - hm.B))]_vars

\* expand has split a bucket with nodes below the pivot and a node whose
\* hash is the pivot: that node is the first of the new bucket
C29_Witness ==
    \E t \in DOMAIN mth :
        /\ mth[t].pc = "expand_split" /\ hm.mutex = t
        /\ mth[t].i < Len(hm.buckets) \div 2 - 1
        /\ LET nb == Len(hm.bkt)
               first == hm.hn[FenceOf(nb)].nxt
           IN  /\ ~isFence(hm, first)
               /\ hm.hn[first].hash = hm.hn[FenceOf(nb)].hash
               /\ hm.bkt[nb].count = Cardinality(NodesOf(hm, nb))
               /\ hm.bkt[hm.buckets[2 * mth[t].i + 3]].count > 0


\* C30: del of a key under a hash returns false and leaves the bucket as it
\* was when the bucket has no node of that hash and key (a node of the key
\* under another hash does not match); otherwise it returns true, the node
\* of the key is out of the chain, the counter is one less, and every other
\* node is still in the chain and found, with its value, by get.
C30_BucketDel ==
    [][(/\ mmode.mode = "bucket"
        /\ Len(mhist'[1]) = Len(mhist[1]) + 1
        /\ mhist'[1][Len(mhist'[1])].op = "Del")
       => LET e == mhist'[1][Len(mhist'[1])]
              n == NodeOf(e.key)
          IN  IF n \in NodesOf(hm, 1) /\ hm.hn[n].hash = e.val
              THEN /\ e.found
                   /\ NodesOf(hm', 1) = NodesOf(hm, 1) \ {n}
                   /\ hm'.bkt[1].count = hm.bkt[1].count - 1
                   /\ FenceAfter(hm', hm'.hn[FenceOf(1)].nxt, HashSpace)
                        = TermFence
                   /\ \A x \in NodesOf(hm', 1) :
                         get(hm', 1, hm.hn[x].key, hm.hn[x].hash)
                           = [ok |-> TRUE, val |-> hm.hn[x].val, found |-> TRUE]
              ELSE ~e.found /\ hm' = hm]_vars

\* del has returned false for a key of the bucket under the hash of another
\* key, and then true for the same key under its own hash
C30_Witness ==
    /\ mmode.mode = "bucket" /\ Len(mhist[1]) >= 3
    /\ mhist[1][1].op = "Set" /\ mhist[1][1].found
    /\ mhist[1][2].op = "Del" /\ mhist[1][2].key = mhist[1][1].key
    /\ mhist[1][2].val # hash(mhist[1][1].key) /\ ~mhist[1][2].found
    /\ mhist[1][3].op = "Del" /\ mhist[1][3].key = mhist[1][1].key
    /\ mhist[1][3].val = hash(mhist[1][1].key) /\ mhist[1][3].found
    /\ hm.bkt[1].count = 0


(***************************************************************************)
(* Properties of the nodes of one hash                                     *)
(***************************************************************************)
\* the chain of hm' is the chain of hm with node n put in front of the
\* successor it has in hm': every other node keeps its successor, but for
\* the one node of the bucket that n is linked behind
LinkedIn(n) ==
    \A x \in DOMAIN hm.hn \ {n} :
        \/ hm'.hn[x].nxt = hm.hn[x].nxt
        \/ hm'.hn[x].nxt = n /\ hm'.hn[n].nxt = hm.hn[x].nxt
                             /\ x \in NodesOf(hm, 1) \cup {FenceOf(1)}

\* C31: an upsert of a key that the bucket has under the same hash replaces
\* the value of its node, returns false and leaves the chain and the counter
\* as they were; an upsert of any other key returns true and links the new
\* node behind all the nodes of the same hash, so its successor has a
\* greater hash or is a fence, and the nodes of one hash stay in the order
\* of their insertion.
C31_EqualHashOrder ==
    [][(/\ mmode.mode = "bucket"
        /\ Len(mhist'[1]) = Len(mhist[1]) + 1
        /\ mhist'[1][Len(mhist'[1])].op = "Set")
       => LET e == mhist'[1][Len(mhist'[1])]
              n == NodeOf(e.key)
          IN  IF n \in NodesOf(hm, 1) /\ hm.hn[n].hash = e.val
              THEN /\ ~e.found
                   /\ hm' = [hm EXCEPT !.hn[n].val = SetVal(1, mth'[1].done)]
              ELSE /\ e.found
                   /\ NodesOf(hm', 1) = NodesOf(hm, 1) \cup {n}
                   /\ hm'.bkt[1].count = hm.bkt[1].count + 1
                   /\ LinkedIn(n)
                   /\ hm'.hn[n].val = SetVal(1, mth'[1].done)
                   /\ \/ isFence(hm', hm'.hn[n].nxt)
                      \/ hm'.hn[hm'.hn[n].nxt].hash > e.val
                   /\ \A x \in NodesOf(hm, 1) :
                         hm.hn[x].hash = e.val
                           => n \in Segment(hm', hm'.hn[x].nxt)]_vars

\* two keys of one hash have been inserted, the second one behind the
\* first, and a third upsert has replaced the value of the first
C31_Witness ==
    /\ mmode.mode = "bucket" /\ Len(mhist[1]) >= 3
    /\ mhist[1][1].op = "Set" /\ mhist[1][1].key = 1 /\ mhist[1][1].found
    /\ mhist[1][2].op = "Set" /\ mhist[1][2].key = 1 + HashSpace
    /\ mhist[1][2].found
    /\ mhist[1][3].op = "Set" /\ mhist[1][3].key = 1 /\ ~mhist[1][3].found
    /\ hm.hn[FenceOf(1)].nxt = NodeOf(1)
    /\ hm.hn[NodeOf(1)].nxt = NodeOf(1 + HashSpace)
    /\ hm.hn[NodeOf(1)].val = SetVal(1, 3)
    /\ hm.bkt[1].count = 2


(***************************************************************************)
(* Properties of the counters                                              *)
(***************************************************************************)
\* the sum of the counters of the buckets of slots lo .. hi
RECURSIVE CountSum(_, _, _)
CountSum(m, lo, hi) ==
    IF lo > hi
    THEN 0
    ELSE IF lo = hi
         THEN m.bkt[m.buckets[lo]].count
         ELSE CountSum(m, lo, (lo + hi) \div 2)
                + CountSum(m, (lo + hi) \div 2 + 1, hi)

\* C32: when no operation is in flight, the count of the map is the sum of
\* the counters of the buckets of the directory, and the counter of each
\* bucket is the number of hash-nodes between its fence and the next fence.
C32_Counters ==
    Quiescent =>
        /\ hm.count = CountSum(hm, 1, Len(hm.buckets))
        /\ \A i \in 1..Len(hm.buckets) :
              hm.bkt[hm.buckets[i]].count
                = Cardinality(NodesOf(hm, hm.buckets[i]))


(***************************************************************************)
(* Properties of expand                                                    *)
(***************************************************************************)
\* C33: a call of expand that has the map's lock looks at count >> B > S
\* again: if it holds, B goes up by one and the directory doubles, and if
\* not, the call returns with the map as it was; B goes up by one at a
\* time, and only in the step of an expand that has just taken the lock.
C33_DoubleChecked ==
    [][/\ \A t \in DOMAIN mth :
            (mth[t].pc = "expand_lock" /\ mth'[t].pc # "expand_lock"
             /\ ~Crashed)
            => IF hm.count \div 2 ^ hm.B > hm.bSize
               THEN /\ hm'.B = hm.B + 1
                    /\ Len(hm'.buckets) = 2 * Len(hm.buckets)
                    /\ hm'.mutex = t /\ mth'[t].pc = "expand_split"
               ELSE hm' = hm /\ mth'[t].pc = "idle"
       /\ hm'.B > hm.B
            => /\ hm'.B = hm.B + 1
               /\ \E t \in DOMAIN mth :
                     mth[t].pc = "expand_lock" /\ mth'[t].pc = "expand_split"]_vars

\* two Sets have seen the overflow; the expand of one has doubled the
\* directory and the other, which has not yet taken the lock, will find the
\* condition false
C33_Witness ==
    /\ hm.B = 1 /\ hm.mutex = 0 /\ ~isOverflow(hm)
    /\ \E t \in DOMAIN mth : \E u \in DOMAIN mth :
          /\ mth[t].pc = "expand_lock"
          /\ u # t /\ Len(mhist[u]) > 0
          /\ mhist[u][Len(mhist[u])].op = "Set"


\* the number of hash-nodes in the chains of slots lo .. hi
RECURSIVE ChainSize(_, _, _)
ChainSize(m, lo, hi) ==
    IF lo > hi
    THEN 0
    ELSE IF lo = hi
         THEN Cardinality(NodesOf(m, m.buckets[lo]))
         ELSE ChainSize(m, lo, (lo + hi) \div 2)
                + ChainSize(m, (lo + hi) \div 2 + 1, hi)

\* C34: B goes up only in a state where the number of hash-nodes in the
\* chain, shifted right by B, is above S.
C34_RealOverflow ==
    [][hm'.B > hm.B
         => ChainSize(hm, 1, Len(hm.buckets)) \div 2 ^ hm.B > hm.bSize]_vars


\* the Sets whose upsert has returned: those that have returned and those
\* that are at or past the increment of count
SetsPastUpsert ==
    {<<t, j>> \in (DOMAIN mhist) \X (0..(3 * WorkerKeys)) :
       \/ j \in DOMAIN mhist[t] /\ mhist[t][j].op = "Set"
       \/ /\ j = 0 /\ mth[t].op = "Set"
          /\ mth[t].pc \in {"set_add", "set_overflow", "expand_lock",
                            "expand_split"}}

\* C35: the count of the map never wraps below zero: Len() is never
\* negative, and never more than the number of keys of the start plus the
\* number of Sets whose upsert has returned.
C35_LenNotNegative ==
    /\ MapLen(hm) >= 0
    /\ MapLen(hm) <= mmode.n + Cardinality(SetsPastUpsert)


(***************************************************************************)
(* Properties of the counters of the stack and the queue                   *)
(***************************************************************************)
\* the Pushes whose CAS has succeeded: those that have returned and those
\* that stand before the increment of count; likewise the Enques
PushesLinked ==
    {<<t, j>> \in (DOMAIN shist) \X (0..(MaxStackSeqOps + WorkerPushes)) :
       \/ j \in DOMAIN shist[t] /\ shist[t][j].op = "Push"
       \/ j = 0 /\ sth[t].pc = "push_add"}

EnquesLinked ==
    {<<t, j>> \in (DOMAIN qhist) \X (0..(MaxQueueSeqOps + WorkerEnques)) :
       \/ j \in DOMAIN qhist[t] /\ qhist[t][j].op = "Enque"
       \/ j = 0 /\ qth[t].pc \in {"enq_store", "enq_add"}}

\* C36: Len() of the stack and of the queue is never negative and never
\* more than the number of Pushes (Enques) whose CAS has succeeded.
C36_LenNotNegative ==
    /\ StackLen(stk) >= 0 /\ StackLen(stk) <= Cardinality(PushesLinked)
    /\ QueueLen(que) >= 0 /\ QueueLen(que) <= Cardinality(EnquesLinked)


(***************************************************************************)
(* Properties of the traversals                                            *)
(***************************************************************************)
\* goroutine t has loaded a nil successor from a node of the chain in get,
\* upsert, search, pivot, last or Next, and has dereferenced it
NilSeen(t) ==
    /\ mth[t].pc = "panic"
    /\ mth[t].op = "none" \/ hashable(mth[t].key)

\* C37: no goroutine that walks the chain in get, upsert, search, pivot, last
\* or Next loads a nil successor from a node: the nil that del stores in the
\* node it unlinks is seen by no other goroutine, and every walk ends at a
\* fence.
C37_NoNilSeen == \A t \in DOMAIN mth : ~NilSeen(t)


(***************************************************************************)
(* Properties of the iteration beside other goroutines                     *)
(***************************************************************************)
\* goroutine t holds the map's lock for an iteration: it is between Lock()
\* and Unlock(), or in Iterate
HoldsIteration(t) == Iterating(t) \/ (hm.mutex = t /\ mth[t].pc = "iterate")

\* C38: from the return of a goroutine's Lock() to its Unlock() no step
\* changes the chain or a value in it: no node is inserted, unlinked or
\* given another value, and no fence is added or removed; Next() returns
\* entries of non-decreasing hash.
C38_FrozenChain ==
    /\ [][\A t \in DOMAIN mth :
             (HoldsIteration(t) /\ hm'.mutex = t) => hm'.hn = hm.hn]_vars
    /\ [](\A t \in DOMAIN mth :
             Iterating(t) =>
                \A i, j \in DOMAIN SinceLock(t) :
                   (/\ i < j
                    /\ SinceLock(t)[i].op = "Next" /\ SinceLock(t)[i].found
                    /\ SinceLock(t)[j].op = "Next" /\ SinceLock(t)[j].found)
                   => hash(SinceLock(t)[i].key) <= hash(SinceLock(t)[j].key))


(***************************************************************************)
(* Properties of the thresholds                                            *)
(***************************************************************************)
\* C39: for every bucket size from 6 to 255, the step that adds 1 to B
\* leaves a map that isUnderflow does not hold of (B > 4 and count >> B <=
\* S/3), and the step that takes 1 from B leaves a map that isOverflow does
\* not hold of (count >> B > S); no call of one goroutine changes B twice.
C39_Hysteresis ==
    [][/\ hm'.B > hm.B => hm'.B = hm.B + 1 /\ ~isUnderflow(hm')
       /\ hm'.B < hm.B => hm'.B = hm.B - 1 /\ ~isOverflow(hm')]_vars

\* the map of bucket size 255 and 2^4 buckets has grown with its 4096th key
C39_Witness ==
    /\ mmode.mode = "counters"
    /\ hm = [bSize |-> 255, B |-> 5, count |-> 4096]
    /\ mhist[1] = <<Entry("Set", Nil, Nil, 5, TRUE)>>


(***************************************************************************)
(* Properties of the queue's tail pointer                                  *)
(***************************************************************************)
\* the enqueuers whose CAS of tail.nxt has succeeded and whose store of the
\* tail pointer is still to come
TailStorers == {t \in DOMAIN qth : qth[t].pc = "enq_store"}

\* C40: the tail pointer refers to the last node of the chain or to the node
\* before it; it refers to the node before the last exactly while one
\* enqueuer is between its CAS of tail.nxt and its store of the tail pointer,
\* and there is never more than one such enqueuer; every store to the tail
\* pointer moves it to the successor of the node it referred to, so the
\* stores come in the order in which the nodes were linked.
C40_TailLag ==
    /\ [](/\ Cardinality(TailStorers) <= 1
          /\ \A t \in TailStorers :
                /\ next(que, que.tail) = qth[t].n
                /\ next(que, qth[t].n) = Nil
          /\ TailStorers = {} => next(que, que.tail) = Nil)
    /\ [][que'.tail # que.tail => que'.tail = next(que, que.tail)]_vars

\* an enqueuer has linked its node and not yet stored the tail pointer, a
\* Deque has already moved the head to that node, past the tail, and another
\* enqueuer holds the same tail and is about to fail its CAS
C40_Witness ==
    \E t, u \in DOMAIN qth :
       /\ t # u
       /\ qth[t].pc = "enq_store" /\ que.head = qth[t].n
       /\ next(que, que.tail) = que.head
       /\ qth[u].pc = "enq_cas" /\ qth[u].tail = que.tail
       /\ \E j \in DOMAIN qhist[u] : qhist[u][j].op = "Deque"

=============================================================================
